---- MODULE Spec2Model ----
(***************************************************************************)
(* A model of the Akaros arena (vmem-style) resource allocator and of the  *)
(* slab allocator's cache/slab lists.                                      *)
(*                                                                         *)
(* The arena part keeps the fields of struct arena in the variable `arena` *)
(* and translates every function of the allocator into an operator that    *)
(* maps a "world" record (the arena, the memory of the boundary tags, the  *)
(* source arena's free resource, the pages the base arena can still hand   *)
(* out for boundary tags, the calls made to ffunc/afunc, and the panic     *)
(* state) to the world after the call.  Pointers are numbers and NULL is   *)
(* 0, as in the C code.  Once the kernel has panicked nothing runs: every  *)
(* operator leaves a stopped world as it is.                               *)
(***************************************************************************)
EXTENDS Integers, Sequences, FiniteSets, TLC

(***************************************************************************)
(* Program constants.                                                      *)
(***************************************************************************)
ARENA_NR_FREE_LISTS == 64
ARENA_NR_HASH_LISTS == 193
PGSIZE == 4096

(***************************************************************************)
(* Bounds of the model.                                                    *)
(***************************************************************************)
\* uintptr_t / size_t are WordBits wide: arithmetic wraps modulo 2^WordBits.
WordBits == 20
\* The resource of an arena is made of NrUnits units (a unit is 1, or PGSIZE
\* for the base arena, whose segments hold whole pages).
NrUnits == 4
\* Largest request, in units.
MaxSize == 3
\* Pages the base arena can still supply for the boundary tags of another arena.
MaxBasePages == 1
\* Boundary tags in a page (PGSIZE / sizeof(struct btag) in the code).
TagsPerPage == 4
\* Calls of the interface that the model follows.
MaxCalls == 5

WORD == 2 ^ WordBits
NULL == 0
SIZEOF_BTAG == PGSIZE \div TagsPerPage

\* What a field that was never written holds, until it is read.
Uninitialized == 0 - 1

Wrap(x) == x % WORD

(***************************************************************************)
(* Helpers of the kernel headers.                                          *)
(***************************************************************************)
ROUNDDOWN(a, n) == a - (a % n)
ROUNDUP(a, n) == ROUNDDOWN(Wrap(a + n - 1), n)
ALIGNED(a, n) == a % n = 0
MAX(a, b) == IF a > b THEN a ELSE b
MIN(a, b) == IF a < b THEN a ELSE b

RECURSIVE LOG2_DOWN(_)
LOG2_DOWN(x) == IF x <= 1 THEN 0 ELSE 1 + LOG2_DOWN(x \div 2)

LOG2_UP(x) == IF 2 ^ LOG2_DOWN(x) = x THEN LOG2_DOWN(x) ELSE LOG2_DOWN(x) + 1

IS_PWR2(x) == x > 0 /\ 2 ^ LOG2_DOWN(x) = x

\* hash.h: a multiplicative hash of the pointer.
__generic_hash(k) == Wrap(k * 40503)

(***************************************************************************)
(* Sequences and sets.                                                     *)
(***************************************************************************)
InsertAt(s, i, e) == SubSeq(s, 1, i - 1) \o <<e>> \o SubSeq(s, i, Len(s))
RemoveAt(s, i) == SubSeq(s, 1, i - 1) \o SubSeq(s, i + 1, Len(s))
InSeq(s, e) == \E i \in 1..Len(s) : s[i] = e
IndexOf(s, e) == IF InSeq(s, e) THEN CHOOSE i \in 1..Len(s) : s[i] = e ELSE 0
SetMin(S) == CHOOSE x \in S : \A y \in S : x <= y
SetMax(S) == CHOOSE x \in S : \A y \in S : x >= y

\* The element of a set of one element: The({e(x) : x \in {v}}) is e(v), with
\* v computed once.
The(S) == CHOOSE x \in S : TRUE

VARIABLES arena, tags, source_free, base_pages, btag_pages, regions, last,
          cache, slabs, pages_left, seed, held, slab_last, kmem_caches,
          lock, thread, futex, panicked, nr_calls

arena_vars == <<arena, tags, source_free, base_pages, btag_pages, regions, last>>
slab_vars == <<cache, slabs, pages_left, seed, held, slab_last, kmem_caches>>
lock_vars == <<lock, thread, futex>>
vars == <<arena_vars, slab_vars, lock_vars, panicked, nr_calls>>

(***************************************************************************)
(* Memory.  A boundary tag is a struct btag in memory, named by its number *)
(* (a pointer; NULL is 0): w.t[bt] holds its start, size and status and    *)
(* its misc_link (le_next: a tag; le_prev: the location of the le_next or  *)
(* list head that points to it).  The lists are intrusive, as in the code: *)
(* a list is what one reaches from its head through le_next.  all_segs is  *)
(* the in-order sequence of the tags linked in the red-black tree.         *)
(*                                                                         *)
(* The world w that the operators below transform is                       *)
(*   w.a      the struct arena                                             *)
(*   w.t      the memory of the boundary tags                              *)
(*   w.src    the addresses that are free in the source arena              *)
(*   w.pages  the pages the base arena can still give to this arena        *)
(*   w.own    the pages the base arena took from itself for its tags       *)
(*   w.got    the regions <<base, size>> that the arena was given (added   *)
(*            or imported) and has not returned to its source              *)
(*   w.ff     the calls of ffunc made so far in the current operation      *)
(*   w.af     the calls of afunc made so far in the current operation      *)
(*   w.panic  "" or why the kernel stopped                                 *)
(*   w.how    what the code leaves open in the current operation:          *)
(*            pol      which of its free ranges the source hands out       *)
(*            rb       the shape of the red-black tree (__xalloc_min_max)  *)
(*            garbage  what a read of the unset last_nextfit_alloc finds   *)
(*            junk     whether the start and the size read from a tag that *)
(*                     was never written pass for what is looked for       *)
(* Operators that return a value return [w |-> world, ret |-> value].      *)
(***************************************************************************)
btag(start, size, status) ==
    [start |-> start, size |-> size, status |-> status, le_next |-> NULL, le_prev |-> NULL]

\* Locations that a le_prev can point to.
LocTag(bt) == bt
LocFree(i) == 1000 + i
LocHash(i) == 2000 + i
LocUnused == LocHash(ARENA_NR_HASH_LISTS)

Stopped(w) == w.panic # ""
Panic(w, msg) == IF Stopped(w) THEN w ELSE [w EXCEPT !.panic = msg]
assert(w, cond, msg) == IF cond THEN w ELSE Panic(w, msg)
Ret(w, ret) == [w |-> w, ret |-> IF Stopped(w) THEN NULL ELSE ret]

\* *loc
Deref(w, loc) ==
    IF loc = LocUnused THEN w.a.unused_btags
    ELSE IF loc >= LocHash(0) THEN w.a.alloc_hash[loc - LocHash(0)]
    ELSE IF loc >= LocFree(0) THEN w.a.free_segs[loc - LocFree(0)]
    ELSE w.t[loc].le_next

\* *loc = v
Store(w, loc, v) ==
    IF loc = NULL THEN Panic(w, "NULL dereference")
    ELSE IF loc = LocUnused THEN [w EXCEPT !.a.unused_btags = v]
    ELSE IF loc >= LocHash(0) THEN [w EXCEPT !.a.alloc_hash[loc - LocHash(0)] = v]
    ELSE IF loc >= LocFree(0) THEN [w EXCEPT !.a.free_segs[loc - LocFree(0)] = v]
    ELSE [w EXCEPT !.t[loc].le_next = v]

BSD_LIST_INSERT_HEAD(w, head, elm) ==
    IF Stopped(w) THEN w
    ELSE The({Store(IF first = NULL
                    THEN [w EXCEPT !.t[elm].le_next = first,
                                   !.t[elm].le_prev = head]
                    ELSE [w EXCEPT !.t[elm].le_next = first,
                                   !.t[first].le_prev = LocTag(elm),
                                   !.t[elm].le_prev = head],
                    head, elm) : first \in {Deref(w, head)}})

BSD_LIST_REMOVE(w, elm) ==
    IF Stopped(w) THEN w
    ELSE Store(IF w.t[elm].le_next = NULL THEN w
               ELSE [w EXCEPT !.t[w.t[elm].le_next].le_prev = w.t[elm].le_prev],
               w.t[elm].le_prev, w.t[elm].le_next)

\* BSD_LIST_FOREACH from first: the tags visited, in order.  A list that runs
\* into itself is cut where it does and marked cyclic.
RECURSIVE ListFrom(_, _, _)
ListFrom(w, bt, seen) ==
    IF bt = NULL THEN [seq |-> <<>>, cyclic |-> FALSE]
    ELSE IF bt \in seen THEN [seq |-> <<>>, cyclic |-> TRUE]
    ELSE The({[seq |-> <<bt>> \o r.seq, cyclic |-> r.cyclic] :
                 r \in {ListFrom(w, w.t[bt].le_next, seen \cup {bt})}})

BSD_LIST(w, head) == ListFrom(w, Deref(w, head), {})

(***************************************************************************)
(* The red-black tree, by its in-order sequence.                           *)
(***************************************************************************)
InTree(w, bt) == InSeq(w.a.all_segs, bt)

\* The first position whose tag starts above start, or the end.
PlaceOf(w, start) ==
    The({IF after = {} THEN Len(w.a.all_segs) + 1 ELSE SetMin(after) :
            after \in {{i \in 1..Len(w.a.all_segs) : w.t[w.a.all_segs[i]].start > start}}})

\* The descent by start; a SPAN is ahead of a regular tag with the same start,
\* and meeting a regular tag with the same start is a panic.
__insert_btag(w, bt) ==
    IF Stopped(w) THEN w
    ELSE IF \E i \in 1..Len(w.a.all_segs) :
                /\ w.t[w.a.all_segs[i]].start = w.t[bt].start
                /\ w.t[w.a.all_segs[i]].status # "SPAN"
    THEN Panic(w, "BT already in tree")
    ELSE [w EXCEPT !.a.all_segs = InsertAt(@, PlaceOf(w, w.t[bt].start), bt)]

rb_erase(w, bt) ==
    IF Stopped(w) THEN w
    ELSE IF ~InTree(w, bt)
    THEN Panic(w, "undefined: rb_erase of a tag that is not in the tree")
    ELSE [w EXCEPT !.a.all_segs = RemoveAt(@, IndexOf(@, bt))]

\* NULL at the ends.
rb_next(w, bt) ==
    IF IndexOf(w.a.all_segs, bt) = Len(w.a.all_segs) THEN NULL
    ELSE w.a.all_segs[IndexOf(w.a.all_segs, bt) + 1]

rb_prev(w, bt) ==
    IF IndexOf(w.a.all_segs, bt) <= 1 THEN NULL
    ELSE w.a.all_segs[IndexOf(w.a.all_segs, bt) - 1]

(***************************************************************************)
(* Boundary-tag store and segment index.                                   *)
(***************************************************************************)
hash_idx(start) == __generic_hash(start) % ARENA_NR_HASH_LISTS

\* A tag whose memory was never written (a fresh page is not zeroed).
Uninit(w, bt) == w.t[bt].status = "NONE"

\* A scan reads bt, which was never written, and takes what it holds for what
\* it looks for.
Junk(w, bt) == w.how.junk /\ Uninit(w, bt)

__track_alloc_seg(w, bt) ==
    IF Stopped(w) THEN w
    ELSE BSD_LIST_INSERT_HEAD([w EXCEPT !.t[bt].status = "ALLOC"],
                              LocHash(hash_idx(w.t[bt].start)), bt)

\* Returns the tag found on the chain of start (unlinked), or NULL.
__untrack_alloc_seg(w, start) ==
    LET l == BSD_LIST(w, LocHash(hash_idx(start)))
        hits == {i \in 1..Len(l.seq) :
                    \/ Junk(w, l.seq[i])
                    \/ ~Uninit(w, l.seq[i]) /\ w.t[l.seq[i]].start = start}
    IN IF Stopped(w) THEN Ret(w, NULL)
       ELSE IF hits = {}
       THEN Ret(IF l.cyclic THEN Panic(w, "hang: cyclic hash chain") ELSE w, NULL)
       ELSE Ret(assert(BSD_LIST_REMOVE(w, l.seq[SetMin(hits)]),
                       w.t[l.seq[SetMin(hits)]].status = "ALLOC",
                       "assert bt_i->status == BTAG_ALLOC"),
                l.seq[SetMin(hits)])

__has_enough_btags(w, nr_needed) ==
    The({Len(l.seq) >= nr_needed \/ l.cyclic : l \in {BSD_LIST(w, LocUnused)}})

__get_btag(w) ==
    IF Stopped(w) THEN Ret(w, NULL)
    ELSE IF w.a.unused_btags = NULL THEN Ret(Panic(w, "assert ret in __get_btag"), NULL)
    ELSE Ret(BSD_LIST_REMOVE(w, w.a.unused_btags), w.a.unused_btags)

__free_btag(w, bt) == BSD_LIST_INSERT_HEAD(w, LocUnused, bt)

__track_free_seg(w, bt) ==
    IF Stopped(w) THEN w
    ELSE BSD_LIST_INSERT_HEAD([w EXCEPT !.t[bt].status = "FREE"],
                              LocFree(LOG2_DOWN(w.t[bt].size)), bt)

__untrack_free_seg(w, bt) == BSD_LIST_REMOVE(w, bt)

\* Allocates size of the segment of bt, which the caller took off its list.
\* new is the caller's tag for the remainder, or NULL; ret is TRUE when the
\* caller's tag was used.
__account_alloc(w, bt, size, new) ==
    IF Stopped(w) THEN [w |-> w, ret |-> FALSE]
    ELSE IF w.t[bt].status # "FREE"
    THEN [w |-> Panic(w, "assert bt->status == BTAG_FREE"), ret |-> FALSE]
    ELSE IF w.t[bt].size # size /\ ~(w.t[bt].size > size)
    THEN [w |-> Panic(w, "assert bt->size > size"), ret |-> FALSE]
    ELSE The({
        IF Stopped(g.w) THEN [w |-> g.w, ret |-> FALSE]
        ELSE The({[w |-> IF Stopped(v) THEN v
                         ELSE [v EXCEPT !.a.amt_alloc_segs = Wrap(@ + size),
                                        !.a.nr_allocs = @ + 1],
                   ret |-> ~Stopped(v) /\ new # NULL /\ w.t[bt].size # size] :
                     v \in {__track_alloc_seg(
                              IF w.t[bt].size = size THEN w
                              ELSE __insert_btag(
                                     __track_free_seg(
                                       [g.w EXCEPT !.t[g.ret].start = Wrap(w.t[bt].start + size),
                                                   !.t[g.ret].size = Wrap(w.t[bt].size - size),
                                                   !.t[bt].size = size],
                                       g.ret),
                                     g.ret),
                              bt)}})
        : g \in {IF new # NULL \/ w.t[bt].size = size THEN [w |-> w, ret |-> new]
                 ELSE __get_btag(w)}})

\* The first segment of the smallest populated list at or above list_idx,
\* taken off its list, or NULL.
__get_from_freelists(w, list_idx) ==
    IF Stopped(w) THEN Ret(w, NULL)
    ELSE The({IF P = {} THEN Ret(w, NULL)
              ELSE Ret(BSD_LIST_REMOVE(w, w.a.free_segs[SetMin(P)]),
                       w.a.free_segs[SetMin(P)]) :
                 P \in {{i \in list_idx..(ARENA_NR_FREE_LISTS - 1) :
                            w.a.free_segs[i] # NULL}}})

\* The tags of one page.
nr_bts == PGSIZE \div SIZEOF_BTAG

\* for (i = 0; i < n; i++) BSD_LIST_INSERT_HEAD(&arena->unused_btags, &tags[i])
RECURSIVE InsertUnused(_, _, _)
InsertUnused(w, first, n) ==
    IF n = 0 THEN w
    ELSE InsertUnused(BSD_LIST_INSERT_HEAD(w, LocUnused, first), first + 1, n - 1)

\* A fresh page of tags at the end of the tag memory.
NewPage(w) == [w EXCEPT !.t = @ \o [i \in 1..nr_bts |-> btag(0, 0, "NONE")]]

\* The base arena's new tags in the page of the segment of bt, which is off the
\* free lists.  The tags are the page: a page at address 0 is a NULL tags.
__add_more_btags_base(w, bt) ==
    IF w.t[bt].start = NULL
    THEN Ret(Panic(__account_alloc(w, bt, PGSIZE, NULL).w,
                   "undefined: boundary tags at address 0"), NULL)
    ELSE The({Ret([InsertUnused(acc.w, IF acc.ret THEN Len(w.t) + 2 ELSE Len(w.t) + 1,
                                IF acc.ret THEN nr_bts - 1 ELSE nr_bts)
                      EXCEPT !.own = @ \cup {w.t[bt].start}],
                  IF acc.ret THEN Wrap(w.t[bt].start + SIZEOF_BTAG) ELSE w.t[bt].start) :
                 acc \in {__account_alloc(NewPage(w), bt, PGSIZE, Len(w.t) + 1)}})

\* Returns the pointer to the new tags, or NULL.  The base arena takes the page
\* from its own free lists; any other arena asks the base arena
\* (arena_alloc(find_my_base(arena), PGSIZE, mem_flags | ARENA_INSTANTFIT)),
\* which hands out a page while it has one and otherwise returns NULL under
\* MEM_ATOMIC and panics without it.
__add_more_btags(w, mem_flags) ==
    IF Stopped(w) THEN Ret(w, NULL)
    ELSE IF w.a.is_base
    THEN The({IF g.ret = NULL
              THEN Ret(assert(g.w, "MEM_ATOMIC" \in mem_flags,
                              "Base failed to alloc its own btag, OOM!"), NULL)
              ELSE __add_more_btags_base(g.w, g.ret) :
                 g \in {__get_from_freelists(w, LOG2_UP(PGSIZE))}})
    ELSE IF w.pages = 0
    THEN Ret(assert(w, "MEM_ATOMIC" \in mem_flags, "OOM!"), NULL)
    ELSE Ret(InsertUnused(NewPage([w EXCEPT !.pages = @ - 1]), Len(w.t) + 1, nr_bts),
             PGSIZE * w.pages)

\* Returns TRUE when nr_needed tags are on unused_btags.
__get_enough_btags(w, nr_needed, mem_flags) ==
    IF Stopped(w) THEN [w |-> w, ret |-> FALSE]
    ELSE IF __has_enough_btags(w, nr_needed) THEN [w |-> w, ret |-> TRUE]
    ELSE The({IF Stopped(r.w) THEN [w |-> r.w, ret |-> FALSE]
              ELSE IF r.ret = NULL
              THEN [w |-> assert(r.w, "MEM_ATOMIC" \in mem_flags,
                                 "assert mem_flags & MEM_ATOMIC"),
                    ret |-> FALSE]
              ELSE [w |-> assert(r.w, __has_enough_btags(r.w, nr_needed),
                                 "assert __has_enough_btags"),
                    ret |-> __has_enough_btags(r.w, nr_needed)] :
                 r \in {__add_more_btags(w, mem_flags)}})

(***************************************************************************)
(* The source arena, seen through afunc and ffunc.  The source is an arena *)
(* without a source whose afunc is arena_alloc and whose ffunc is          *)
(* arena_free: it hands out any free, quantum-aligned range (how.pol picks *)
(* which), and when it has none it returns NULL under MEM_ATOMIC and       *)
(* panics without it.  An allocation at address 0 looks like a failure to  *)
(* the source's own arena_alloc, which then runs out of resources.         *)
(***************************************************************************)
MEM_FLAGS == {"MEM_ATOMIC", "MEM_WAIT", "MEM_ERROR"}
ARENA_ALLOC_STYLES == {"ARENA_BESTFIT", "ARENA_INSTANTFIT", "ARENA_NEXTFIT"}

Range(start, size) == start..(start + size - 1)

afunc(w, size, flags) ==
    LET fits == {s \in w.src : ALIGNED(s, w.a.quantum) /\ Range(s, size) \subseteq w.src}
        s == IF w.how.pol = "low" THEN SetMin(fits) ELSE SetMax(fits)
        w1 == [w EXCEPT !.af = Append(@, size)]
    IN IF Stopped(w) THEN Ret(w, NULL)
       ELSE IF fits = {} THEN Ret(assert(w1, "MEM_ATOMIC" \in flags, "OOM!"), NULL)
       ELSE IF s = NULL
       THEN Ret(assert([w1 EXCEPT !.src = @ \ Range(s, size)],
                       "MEM_ATOMIC" \in flags, "OOM!"), NULL)
       ELSE Ret([w1 EXCEPT !.src = @ \ Range(s, size)], s)

ffunc(w, addr, size) ==
    IF Stopped(w) THEN w
    ELSE [w EXCEPT !.src = @ \cup Range(addr, size), !.ff = Append(@, <<addr, size>>),
                   !.got = @ \ {<<addr, size>>}]

(***************************************************************************)
(* Allocation.                                                             *)
(***************************************************************************)
\* __account_alloc(arena, bt, size, NULL); return (void*)bt->start;
AccountAndReturn(w, bt, size) ==
    The({Ret(acc.w, acc.w.t[bt].start) : acc \in {__account_alloc(w, bt, size, NULL)}})

\* The scan of __alloc_bestfit: the first of the smallest tags of seq that
\* hold size, or NULL.
BestOf(w, seq, size) ==
    LET sz(i) == IF Junk(w, seq[i]) THEN size
                 ELSE IF Uninit(w, seq[i]) THEN 0
                 ELSE w.t[seq[i]].size
        ok == {i \in 1..Len(seq) : sz(i) >= size}
    IN IF ok = {} THEN NULL
       ELSE seq[CHOOSE i \in ok : \A j \in ok : sz(i) < sz(j) \/ (sz(i) = sz(j) /\ i <= j)]

\* The smallest segment of the list of size that can satisfy the request,
\* otherwise the first segment of a larger list.  The segment found by the
\* scan stays on its free list.
__alloc_bestfit(w, size) ==
    IF Stopped(w) THEN Ret(w, NULL)
    ELSE The({
        IF l.cyclic THEN Ret(Panic(w, "hang: cyclic free list"), NULL)
        ELSE The({IF best.ret = NULL THEN Ret(best.w, NULL)
                  ELSE AccountAndReturn(best.w, best.ret, size) :
                     best \in {IF BestOf(w, l.seq, size) # NULL
                               THEN Ret(w, BestOf(w, l.seq, size))
                               ELSE __get_from_freelists(w, LOG2_DOWN(size) + 1)}})
        : l \in {BSD_LIST(w, LocFree(LOG2_DOWN(size)))}})

\* The first segment that is sure to be big enough.
__alloc_instantfit(w, size) ==
    The({IF g.ret = NULL THEN Ret(g.w, NULL) ELSE AccountAndReturn(g.w, g.ret, size) :
            g \in {__get_from_freelists(w, LOG2_UP(size))}})

\* A search that does not look for the wraparound of the phase.
__find_sufficient_wrapped(bt_start, bt_size, size, align, phase, nocross) ==
    LET try == Wrap(ROUNDUP(bt_start, align) + phase)
    IN IF Wrap(try + size) < try THEN 0
       ELSE IF Wrap(try + size) > Wrap(bt_start + bt_size) THEN 0
       ELSE try

\* Given a tag's start and size, a start within it that satisfies the
\* constraints, or 0.
RECURSIVE __find_sufficient(_, _, _, _, _, _)
__find_sufficient(bt_start, bt_size, size, align, phase, nocross) ==
    LET try == Wrap(ROUNDUP(bt_start, align) + phase)
        again == ROUNDUP(bt_start, nocross)
        try_size == Wrap(bt_size - (again - bt_start))
    IN IF try < bt_start THEN 0
       ELSE IF Wrap(try + size) < try THEN 0
       ELSE IF Wrap(try + size) > Wrap(bt_start + bt_size) THEN 0
       ELSE IF nocross = 0 THEN try
       ELSE IF ROUNDUP(try, nocross) >= Wrap(try + size) THEN try
       ELSE IF try_size > bt_size THEN 0
       ELSE IF Wrap(again + try_size) < again THEN 0
       ELSE __find_sufficient(again, try_size, size, align, phase, 0)

\* A split that leaves the front part off the free lists.
__split_bt_at_untracked(w, bt, at) ==
    The({IF Stopped(g.w) THEN g.w
         ELSE __insert_btag(
                [g.w EXCEPT !.t[g.ret].status = "FREE",
                            !.t[g.ret].start = w.t[bt].start,
                            !.t[g.ret].size = Wrap(at - w.t[bt].start),
                            !.t[bt].start = Wrap(w.t[bt].start + Wrap(at - w.t[bt].start)),
                            !.t[bt].size = Wrap(w.t[bt].size - Wrap(at - w.t[bt].start))],
                g.ret) :
            g \in {__get_btag(w)}})

\* Splits bt, which is on no free list, at `at`; the front part goes back on
\* a free list.
__split_bt_at(w, bt, at) ==
    The({IF Stopped(g.w) THEN g.w
         ELSE __insert_btag(
                __track_free_seg(
                  [g.w EXCEPT !.t[g.ret].status = "FREE",
                              !.t[g.ret].start = w.t[bt].start,
                              !.t[g.ret].size = Wrap(at - w.t[bt].start),
                              !.t[bt].start = Wrap(w.t[bt].start + Wrap(at - w.t[bt].start)),
                              !.t[bt].size = Wrap(w.t[bt].size - Wrap(at - w.t[bt].start))],
                  g.ret),
                g.ret) :
            g \in {__get_btag(w)}})

\* The first tag at or above minaddr whose predecessor is below it.
__found_least_upper_btag(w, bt, minaddr) ==
    /\ w.t[bt].start >= minaddr
    /\ \/ rb_prev(w, bt) = NULL
       \/ w.t[rb_prev(w, bt)].start < minaddr

\* The tag at `at` of the segment of bt allocated: bt leaves its list, is split
\* when it starts before `at`, and is accounted.
TakeAt(w, bt, at, size) ==
    AccountAndReturn(IF at # w.t[bt].start
                     THEN __split_bt_at(BSD_LIST_REMOVE(w, bt), bt, at)
                     ELSE BSD_LIST_REMOVE(w, bt),
                     bt, size)

\* The search between minaddr and maxaddr.  The descent from the root goes
\* right at a tag that starts at minaddr but is not the least upper one (its
\* SPAN starts there too); when that tag is above its SPAN in the tree, the
\* descent ends without a node.  Which of the two is above depends on the
\* shape of the tree: w.how.rb says that it is the regular tag.
__xalloc_min_max(w, size, align, phase, nocross, minaddr, maxaddr) ==
    LET segs == w.a.all_segs
        lub == {i \in 1..Len(segs) : __found_least_upper_btag(w, segs[i], minaddr)}
        shadowed == \E i \in 2..Len(segs) :
                        /\ Len(segs) >= 3
                        /\ w.t[segs[i]].start = minaddr
                        /\ w.t[segs[i - 1]].start = minaddr
        first == IF lub = {} \/ (w.how.rb /\ shadowed) THEN Len(segs) + 1 ELSE SetMin(lub)
        try(i) == __find_sufficient(w.t[segs[i]].start, w.t[segs[i]].size, size,
                                    align, phase, nocross)
        hits == {i \in first..Len(segs) : try(i) # 0}
    IN IF Stopped(w) \/ hits = {} THEN Ret(w, NULL)
       ELSE IF maxaddr # 0 /\ Wrap(try(SetMin(hits)) + size) > maxaddr THEN Ret(w, NULL)
       ELSE TakeAt(w, segs[SetMin(hits)], try(SetMin(hits)), size)

\* The lists of tags as one sequence, from list i up.
RECURSIVE FreeListsFrom(_, _)
FreeListsFrom(w, i) ==
    IF i >= ARENA_NR_FREE_LISTS THEN [seq |-> <<>>, cyclic |-> FALSE]
    ELSE IF w.a.free_segs[i] = NULL THEN FreeListsFrom(w, i + 1)
    ELSE The({IF l.cyclic THEN l
              ELSE The({[seq |-> l.seq \o r.seq, cyclic |-> r.cyclic] :
                           r \in {FreeListsFrom(w, i + 1)}}) :
                 l \in {BSD_LIST(w, LocFree(i))}})

__xalloc_from_freelists(w, size, align, phase, nocross, try_instant_fit) ==
    LET want == Wrap(ROUNDUP(size, align) + phase)
        list_idx == LOG2_DOWN(want) + (IF try_instant_fit THEN 1 ELSE 0)
        l == FreeListsFrom(w, list_idx)
        try(i) == __find_sufficient(w.t[l.seq[i]].start, w.t[l.seq[i]].size, size,
                                    align, phase, nocross)
        hits == {i \in 1..Len(l.seq) :
                    \/ Junk(w, l.seq[i])
                    \/ ~Uninit(w, l.seq[i]) /\ try(i) # 0}
        at(i) == IF Uninit(w, l.seq[i]) THEN w.t[l.seq[i]].start ELSE try(i)
    IN IF Stopped(w) \/ want < size THEN Ret(w, NULL)
       ELSE IF hits = {}
       THEN Ret(IF l.cyclic THEN Panic(w, "hang: cyclic free list") ELSE w, NULL)
       ELSE TakeAt(w, l.seq[SetMin(hits)], at(SetMin(hits)), size)

\* arena->last_nextfit_alloc = ret, when there is one.
Remember(r) ==
    IF r.ret = NULL THEN r
    ELSE [w |-> [r.w EXCEPT !.a.last_nextfit_alloc = r.ret], ret |-> r.ret]

__xalloc_nextfit(w, size, align, phase, nocross) ==
    IF Stopped(w) THEN Ret(w, NULL)
    ELSE The({IF r.ret # NULL \/ Stopped(r.w) THEN Remember(r)
              ELSE Remember(__xalloc_min_max(r.w, size, align, phase, nocross,
                                             w.a.quantum, 0)) :
                 r \in {__xalloc_min_max(w, size, align, phase, nocross,
                                         Wrap((IF w.a.last_nextfit_alloc = Uninitialized
                                               THEN w.how.garbage
                                               ELSE w.a.last_nextfit_alloc)
                                              + w.a.quantum),
                                         0)}})

__alloc_nextfit(w, size) == __xalloc_nextfit(w, size, w.a.quantum, 0, 0)

alloc_from_arena(w, size, flags) ==
    The({IF ~g.ret THEN Ret(g.w, NULL)
         ELSE IF "ARENA_BESTFIT" \in flags THEN __alloc_bestfit(g.w, size)
         ELSE IF "ARENA_NEXTFIT" \in flags THEN __alloc_nextfit(g.w, size)
         ELSE __alloc_instantfit(g.w, size) :
            g \in {__get_enough_btags(w, 1, flags \cap MEM_FLAGS)}})

(***************************************************************************)
(* Adding segments and importing spans.                                    *)
(***************************************************************************)
assert_quantum_alignment(w, base, size) ==
    IF ~ALIGNED(base, w.a.quantum) THEN Panic(w, "Unaligned base")
    ELSE IF ~ALIGNED(size, w.a.quantum) THEN Panic(w, "Unaligned size")
    ELSE w

\* The span tag of __arena_add: not on any list, but in all_segs.
__arena_add_span(w, base, size) ==
    The({IF Stopped(span_bt.w) THEN span_bt.w
         ELSE __insert_btag([span_bt.w EXCEPT !.t[span_bt.ret].start = base,
                                              !.t[span_bt.ret].size = size,
                                              !.t[span_bt.ret].status = "SPAN"],
                            span_bt.ret) :
            span_bt \in {__get_btag(w)}})

\* The free tag of __arena_add; the arena now has the region.
__arena_add_seg(w, bt, base, size) ==
    IF Stopped(w) THEN w
    ELSE __insert_btag(
           __track_free_seg([w EXCEPT !.t[bt].start = base,
                                      !.t[bt].size = size,
                                      !.a.amt_total_segs = Wrap(@ + size),
                                      !.got = @ \cup {<<base, size>>}], bt),
           bt)

__arena_add(w, base, size, flags) ==
    IF Stopped(w) THEN Ret(w, NULL)
    ELSE IF Stopped(assert_quantum_alignment(w, base, size))
    THEN Ret(assert_quantum_alignment(w, base, size), NULL)
    ELSE IF ~(base < Wrap(base + size))
    THEN Ret(Panic(w, "assert base < base + size"), NULL)
    ELSE The({
        IF ~g.ret THEN Ret(g.w, NULL)
        ELSE The({IF Stopped(bt.w) THEN Ret(bt.w, NULL)
                  ELSE Ret(__arena_add_seg(IF w.a.source
                                           THEN __arena_add_span(bt.w, base, size)
                                           ELSE bt.w,
                                           bt.ret, base, size),
                           base) :
                     bt \in {__get_btag(g.w)}})
        : g \in {__get_enough_btags(w, 2, flags \cap MEM_FLAGS)}})

\* arena_add without its check of the source.
arena_add_any(w, base, size, flags) ==
    IF Stopped(w) THEN Ret(w, NULL) ELSE __arena_add(w, base, size, flags)

arena_add(w, base, size, flags) ==
    IF Stopped(w) THEN Ret(w, NULL)
    ELSE IF w.a.source
    THEN Ret(Panic(w, "Arenas with sources must not manually add resources."), NULL)
    ELSE __arena_add(w, base, size, flags)

\* An import size without the MAX.
import_size_shifted(w, size) == Wrap(size * (2 ^ w.a.import_scale))

\* MAX check, in case size << scale overflows.
import_size(w, size) == MAX(size, Wrap(size * (2 ^ w.a.import_scale)))

\* An import that keeps the span it could not register.
get_more_resources_keep(w, size, flags) ==
    IF Stopped(w) THEN [w |-> w, ret |-> FALSE]
    ELSE IF ~w.a.source
    THEN [w |-> assert(w, "MEM_ATOMIC" \in flags, "OOM!"), ret |-> FALSE]
    ELSE The({
        IF span.ret = NULL THEN [w |-> span.w, ret |-> FALSE]
        ELSE The({[w |-> add.w, ret |-> ~Stopped(add.w) /\ add.ret # NULL] :
                     add \in {__arena_add(span.w, span.ret, import_size(w, size), flags)}})
        : span \in {afunc(w, import_size(w, size), flags)}})

\* Returns TRUE when the arena got something.
get_more_resources(w, size, flags) ==
    IF Stopped(w) THEN [w |-> w, ret |-> FALSE]
    ELSE IF ~w.a.source
    THEN [w |-> assert(w, "MEM_ATOMIC" \in flags, "OOM!"), ret |-> FALSE]
    ELSE The({
        IF span.ret = NULL THEN [w |-> span.w, ret |-> FALSE]
        ELSE The({IF Stopped(add.w) THEN [w |-> add.w, ret |-> FALSE]
                  ELSE IF add.ret = NULL
                  THEN [w |-> ffunc(add.w, span.ret, import_size(w, size)), ret |-> FALSE]
                  ELSE [w |-> add.w, ret |-> TRUE] :
                     add \in {__arena_add(span.w, span.ret, import_size(w, size), flags)}})
        : span \in {afunc(w, import_size(w, size), flags)}})

\* The while (1) of arena_alloc.
RECURSIVE arena_alloc_loop(_, _, _)
arena_alloc_loop(w, size, flags) ==
    The({
        IF Stopped(r.w) \/ r.ret # NULL THEN r
        ELSE The({IF Stopped(m.w) \/ ~m.ret THEN Ret(m.w, NULL)
                  ELSE arena_alloc_loop(m.w, size, flags) :
                     m \in {get_more_resources(r.w, size, flags)}})
        : r \in {alloc_from_arena(w, size, flags)}})

arena_alloc(w, size, flags) ==
    IF Stopped(w) THEN Ret(w, NULL)
    ELSE IF ROUNDUP(size, w.a.quantum) = 0 THEN Ret(Panic(w, "request for zero"), NULL)
    ELSE arena_alloc_loop(w, ROUNDUP(size, w.a.quantum), flags)

xalloc_from_arena(w, size, align, phase, nocross, minaddr, maxaddr, flags) ==
    The({IF ~g.ret THEN Ret(g.w, NULL)
         ELSE IF minaddr # 0 \/ maxaddr # 0
         THEN __xalloc_min_max(g.w, size, align, phase, nocross, minaddr, maxaddr)
         ELSE IF "ARENA_BESTFIT" \in flags
         THEN __xalloc_from_freelists(g.w, size, align, phase, nocross, FALSE)
         ELSE IF "ARENA_NEXTFIT" \in flags
         THEN __xalloc_nextfit(g.w, size, align, phase, nocross)
         ELSE __xalloc_from_freelists(g.w, size, align, phase, nocross, TRUE) :
            g \in {__get_enough_btags(w, 2, flags \cap MEM_FLAGS)}})

\* The while (1) of arena_xalloc.
RECURSIVE arena_xalloc_loop(_, _, _, _, _, _, _, _)
arena_xalloc_loop(w, size, align, phase, nocross, minaddr, maxaddr, flags) ==
    The({
        IF Stopped(r.w) \/ r.ret # NULL THEN r
        ELSE IF Wrap(size + align + phase) < size
        THEN Ret(Panic(r.w, "size + align + phase overflow"), NULL)
        ELSE The({IF Stopped(m.w) \/ ~m.ret THEN Ret(m.w, NULL)
                  ELSE arena_xalloc_loop(m.w, size, align, phase, nocross, minaddr,
                                         maxaddr,
                                         (flags \ ARENA_ALLOC_STYLES) \cup {"ARENA_BESTFIT"}) :
                     m \in {get_more_resources(r.w, Wrap(size + align + phase), flags)}})
        : r \in {xalloc_from_arena(w, size, align, phase, nocross, minaddr, maxaddr,
                                   flags)}})

\* The entry checks of arena_xalloc without the check of the source.
xalloc_entry_panic_any(w, size, align, phase, nocross, minaddr, maxaddr) ==
    IF size = 0 THEN "request for zero"
    ELSE IF ~IS_PWR2(align) THEN "non-power of two align"
    ELSE IF nocross # 0 /\ ~IS_PWR2(nocross) THEN "non-power of nocross"
    ELSE IF ~ALIGNED(align, w.a.quantum) THEN "non-aligned align"
    ELSE IF ~ALIGNED(nocross, w.a.quantum) THEN "non-aligned nocross"
    ELSE IF ~ALIGNED(phase, w.a.quantum) THEN "non-aligned phase"
    ELSE IF Wrap(size + align) < size THEN "size + align overflow"
    ELSE IF Wrap(size + phase) < size THEN "size + phase overflow"
    ELSE IF Wrap(align + phase) < align THEN "align + phase overflow"
    ELSE ""

\* The panic of the entry checks of arena_xalloc, or "".
xalloc_entry_panic(w, size, align, phase, nocross, minaddr, maxaddr) ==
    IF size = 0 THEN "request for zero"
    ELSE IF ~IS_PWR2(align) THEN "non-power of two align"
    ELSE IF nocross # 0 /\ ~IS_PWR2(nocross) THEN "non-power of nocross"
    ELSE IF ~ALIGNED(align, w.a.quantum) THEN "non-aligned align"
    ELSE IF ~ALIGNED(nocross, w.a.quantum) THEN "non-aligned nocross"
    ELSE IF ~ALIGNED(phase, w.a.quantum) THEN "non-aligned phase"
    ELSE IF Wrap(size + align) < size THEN "size + align overflow"
    ELSE IF Wrap(size + phase) < size THEN "size + phase overflow"
    ELSE IF Wrap(align + phase) < align THEN "align + phase overflow"
    ELSE IF w.a.source /\ (nocross # 0 \/ minaddr # 0 \/ maxaddr # 0)
    THEN "has source, can't xalloc with nocross, minaddr, or maxaddr"
    ELSE ""

arena_xalloc(w, size, align, phase, nocross, minaddr, maxaddr, flags) ==
    IF Stopped(w) THEN Ret(w, NULL)
    ELSE IF xalloc_entry_panic(w, ROUNDUP(size, w.a.quantum), align, phase, nocross,
                               minaddr, maxaddr) # ""
    THEN Ret(Panic(w, xalloc_entry_panic(w, ROUNDUP(size, w.a.quantum), align, phase,
                                         nocross, minaddr, maxaddr)), NULL)
    ELSE arena_xalloc_loop(w, ROUNDUP(size, w.a.quantum), align, phase, nocross,
                           minaddr, maxaddr, flags)

(***************************************************************************)
(* Freeing.                                                                *)
(***************************************************************************)
\* left->size += right->size
Grown(w, left, by) ==
    IF Stopped(w) THEN w ELSE [w EXCEPT !.t[left].size = Wrap(@ + by)]

\* Returns TRUE when right was merged into left.
__merge_right_to_left(w, left, right) ==
    IF \/ Stopped(w)
       \/ w.t[left].status # "FREE"
       \/ w.t[right].status # "FREE"
       \/ Wrap(w.t[left].start + w.t[left].size) # w.t[right].start
    THEN [w |-> w, ret |-> FALSE]
    ELSE The({[w |-> v, ret |-> ~Stopped(v)] :
                 v \in {__free_btag(
                          rb_erase(
                            __track_free_seg(
                              Grown(__untrack_free_seg(__untrack_free_seg(w, left), right),
                                    left, w.t[right].size),
                              left),
                            right),
                          right)}})

NothingToFree(w) == [w |-> w, to_free_addr |-> NULL, to_free_sz |-> 0]

\* The check for a span of __coalesce_free_seg: when bt is all of its span,
\* both tags leave the arena.
__coalesce_span(w, bt) ==
    LET bt_p == rb_prev(w, bt)
    IN IF Stopped(w) \/ bt_p = NULL THEN NothingToFree(w)
       ELSE IF /\ w.t[bt_p].status = "SPAN"
               /\ w.t[bt_p].start = w.t[bt].start
               /\ w.t[bt_p].size = w.t[bt].size
       THEN [w |-> __free_btag(
                     rb_erase(
                       __free_btag(rb_erase(__untrack_free_seg(w, bt), bt_p), bt_p),
                       bt),
                     bt),
             to_free_addr |-> w.t[bt_p].start,
             to_free_sz |-> w.t[bt_p].size]
       ELSE NothingToFree(w)

\* Returns [w, to_free_addr, to_free_sz].
__coalesce_free_seg(w, bt) ==
    IF Stopped(w) THEN NothingToFree(w)
    ELSE IF ~InTree(w, bt)
    THEN NothingToFree(Panic(w, "undefined: rb_next of a tag that is not in the tree"))
    ELSE The({
        IF Stopped(v) \/ rb_prev(v, bt) = NULL THEN NothingToFree(v)
        ELSE The({__coalesce_span(m.w, IF m.ret THEN rb_prev(v, bt) ELSE bt) :
                     m \in {__merge_right_to_left(v, rb_prev(v, bt), bt)}})
        : v \in {IF rb_next(w, bt) = NULL THEN w
                 ELSE __merge_right_to_left(w, bt, rb_next(w, bt)).w}})

\* arena->amt_alloc_segs -= size; arena->nr_allocs--;
Unaccounted(w, size) ==
    [w EXCEPT !.a.amt_alloc_segs = Wrap(@ - size), !.a.nr_allocs = Wrap(@ - 1)]

\* free_from_arena without its check of the size.
free_from_arena_any(w, addr, size) ==
    IF Stopped(w) THEN w
    ELSE The({
        IF Stopped(bt.w) THEN bt.w
        ELSE IF bt.ret = NULL THEN Panic(bt.w, "Free of unallocated addr")
        ELSE The({IF Stopped(c.w) THEN c.w
                  ELSE IF c.to_free_addr # NULL
                  THEN ffunc([c.w EXCEPT !.a.amt_total_segs = Wrap(@ - c.to_free_sz)],
                             c.to_free_addr, c.to_free_sz)
                  ELSE [c.w EXCEPT !.a.amt_total_segs = Wrap(@ - c.to_free_sz)] :
                     c \in {__coalesce_free_seg(
                              __track_free_seg(Unaccounted(bt.w, bt.w.t[bt.ret].size), bt.ret),
                              bt.ret)}})
        : bt \in {__untrack_alloc_seg(w, addr)}})

free_from_arena(w, addr, size) ==
    IF Stopped(w) THEN w
    ELSE The({
        IF Stopped(bt.w) THEN bt.w
        ELSE IF bt.ret = NULL THEN Panic(bt.w, "Free of unallocated addr")
        ELSE IF bt.w.t[bt.ret].size # size THEN Panic(bt.w, "Free with wrong size")
        ELSE The({IF Stopped(c.w) THEN c.w
                  ELSE IF c.to_free_addr # NULL
                  THEN ffunc([c.w EXCEPT !.a.amt_total_segs = Wrap(@ - c.to_free_sz)],
                             c.to_free_addr, c.to_free_sz)
                  ELSE [c.w EXCEPT !.a.amt_total_segs = Wrap(@ - c.to_free_sz)] :
                     c \in {__coalesce_free_seg(
                              __track_free_seg(Unaccounted(bt.w, size), bt.ret),
                              bt.ret)}})
        : bt \in {__untrack_alloc_seg(w, addr)}})

arena_free(w, addr, size) ==
    IF Stopped(w) THEN w ELSE free_from_arena(w, addr, ROUNDUP(size, w.a.quantum))

arena_xfree(w, addr, size) ==
    IF Stopped(w) THEN w ELSE free_from_arena(w, addr, ROUNDUP(size, w.a.quantum))

\* What the arena has that is not allocated.
arena_amt_free(w) == Wrap(w.a.amt_total_segs - w.a.amt_alloc_segs)

(***************************************************************************)
(* The slab allocator.  A cache is a struct kmem_cache; its three lists    *)
(* hold slabs, named by their number in s.slabs.  An object is <<slab,     *)
(* index>>: the index-th buffer of the slab.  The world s that the         *)
(* operators transform is                                                  *)
(*   s.c       the struct kmem_cache                                       *)
(*   s.slabs   the memory of the slabs: obj_size, num_busy_obj,            *)
(*             num_total_obj, the free objects in the order of the free    *)
(*             list (small: through the word after each object; large:     *)
(*             bufctl_freelist), the order of its pages (large), and       *)
(*             whether its memory is still allocated (live)                *)
(*   s.pages   the pages the page allocator has left                       *)
(*   s.hdrs    the slab headers taken from kmem_slab_cache                 *)
(*   s.bufctls the bufctls taken from kmem_bufctl_cache                    *)
(*   s.kcs     the struct kmem_caches taken from kmem_cache_cache          *)
(*   s.reg     kmem_caches, the list of the caches: the name and the       *)
(*             obj_size of each, from the head                             *)
(*   s.log     the slabs that kmem_slab_destroy was called on, in order,   *)
(*             in the current operation                                    *)
(*   s.panic   "" or why the kernel stopped                                *)
(*   s.intact  whether memory that was freed still holds what it held,     *)
(*             when it is read                                             *)
(***************************************************************************)
\* slab.h is not part of the sources at hand; these are its values and the
\* sizes of the 64-bit build.
NUM_BUF_PER_SLAB == 8
SLAB_LARGE_CUTOFF == PGSIZE \div NUM_BUF_PER_SLAB
SIZEOF_KMEM_SLAB == 48
SIZEOF_UINTPTR == 8

TAILQ_INSERT_HEAD(list, elm) == <<elm>> \o list
TAILQ_REMOVE(list, elm) == SelectSeq(list, LAMBDA x : x # elm)
TAILQ_FIRST(list) == IF list = <<>> THEN NULL ELSE Head(list)

\* ctor is whether the cache has a constructor.
__kmem_cache_create(name, obj_size, align, ctor) ==
    [name |-> name, obj_size |-> obj_size, align |-> align, ctor |-> ctor,
     full_slab_list |-> <<>>, partial_slab_list |-> <<>>, empty_slab_list |-> <<>>,
     nr_cur_alloc |-> 0]

NoCache == __kmem_cache_create("", 0, 0, FALSE)

\* The slab of one page: its header is at the end of the page, and the free
\* list starts at the first buffer and ends after num_total_obj - 1 steps.
\* The loop that links the buffers calls the constructor: ctor_calls[i] is
\* the number of calls on buffer i.
SmallSlab(cp) ==
    The({[obj_size |-> obj_size,
          num_busy_obj |-> 0,
          num_total_obj |-> (PGSIZE - SIZEOF_KMEM_SLAB) \div obj_size,
          free |-> [i \in 1..MAX((PGSIZE - SIZEOF_KMEM_SLAB) \div obj_size, 1) |-> i - 1],
          ctor_calls |-> [i \in 0..(MAX((PGSIZE - SIZEOF_KMEM_SLAB) \div obj_size, 1) - 1) |->
                             IF cp.ctor /\ i < ((PGSIZE - SIZEOF_KMEM_SLAB) \div obj_size) - 1
                             THEN 1 ELSE 0],
          order |-> 0, live |-> TRUE] :
            obj_size \in {ROUNDUP(cp.obj_size + SIZEOF_UINTPTR, cp.align)}})

\* The order of the pages of a large slab.
order_pg_alloc(obj_size) ==
    LOG2_UP(ROUNDUP(NUM_BUF_PER_SLAB * obj_size, PGSIZE) \div PGSIZE)

\* The slab whose header comes from kmem_slab_cache: each bufctl is inserted
\* at the head of bufctl_freelist.
LargeSlab(cp) ==
    The({[obj_size |-> obj_size,
          num_busy_obj |-> 0,
          num_total_obj |-> ((2 ^ order_pg_alloc(obj_size)) * PGSIZE) \div obj_size,
          free |-> [i \in 1..(((2 ^ order_pg_alloc(obj_size)) * PGSIZE) \div obj_size) |->
                       (((2 ^ order_pg_alloc(obj_size)) * PGSIZE) \div obj_size) - i],
          ctor_calls |-> [i \in 0..((((2 ^ order_pg_alloc(obj_size)) * PGSIZE) \div obj_size) - 1)
                             |-> IF cp.ctor THEN 1 ELSE 0],
          order |-> order_pg_alloc(obj_size), live |-> TRUE] :
            obj_size \in {ROUNDUP(cp.obj_size + SIZEOF_UINTPTR, cp.align)}})

\* Returns [s, ret]: ret is TRUE when the cache got a slab on its empty list.
kmem_cache_grow(s) ==
    IF s.c.obj_size <= SLAB_LARGE_CUTOFF
    THEN IF s.pages = 0 THEN [s |-> s, ret |-> FALSE]
         ELSE [s |-> [s EXCEPT !.pages = @ - 1,
                               !.slabs = Append(@, SmallSlab(s.c)),
                               !.c.empty_slab_list =
                                   TAILQ_INSERT_HEAD(@, Len(s.slabs) + 1)],
               ret |-> TRUE]
    ELSE IF s.pages < 2 ^ LargeSlab(s.c).order THEN [s |-> s, ret |-> FALSE]
    ELSE [s |-> [s EXCEPT !.pages = @ - 2 ^ LargeSlab(s.c).order,
                          !.hdrs = @ + 1,
                          !.bufctls = @ + LargeSlab(s.c).num_total_obj,
                          !.slabs = Append(@, LargeSlab(s.c)),
                          !.c.empty_slab_list = TAILQ_INSERT_HEAD(@, Len(s.slabs) + 1)],
          ret |-> TRUE]

SlabStopped(s) == s.panic # ""
SlabPanic(s, msg) == IF SlabStopped(s) THEN s ELSE [s EXCEPT !.panic = msg]

\* A read of the memory of a slab: of a slab that was destroyed, it finds
\* what the slab held or it does not.
Touch(s, slab) ==
    IF s.slabs[slab].live \/ s.intact THEN s
    ELSE SlabPanic(s, "undefined: use of a freed slab")

\* TAILQ_REMOVE(&cp->..._slab_list, a_slab, link): a_slab leaves the list it
\* is on, through its own links.
Unlinked(c, a_slab) ==
    [c EXCEPT !.full_slab_list = TAILQ_REMOVE(@, a_slab),
              !.partial_slab_list = TAILQ_REMOVE(@, a_slab),
              !.empty_slab_list = TAILQ_REMOVE(@, a_slab)]

\* An allocation that grows the cache whenever it has no partial slab.
APartialSlab_grows(s, flags) ==
    IF TAILQ_FIRST(s.c.partial_slab_list) # NULL THEN [s |-> s, ok |-> TRUE]
    ELSE The({
        IF ~g.ret
        THEN [s |-> IF "MEM_ERROR" \in flags THEN g.s
                    ELSE SlabPanic(g.s, "[German Accent]: OOM for a small slab growth!!!"),
              ok |-> FALSE]
        ELSE [s |-> [g.s EXCEPT !.c.empty_slab_list = Tail(@),
                                !.c.partial_slab_list =
                                    TAILQ_INSERT_HEAD(@, Head(g.s.c.empty_slab_list))],
              ok |-> TRUE]
        : g \in {kmem_cache_grow(s)}})

\* The first partial slab; without one, the first empty slab, after a grow
\* when there is none, moved to the partial list.  Returns [s, ok]: without a
\* slab the kernel panics, or error() throws ENOMEM to the caller's handler
\* with the cache as it was.
APartialSlab(s, flags) ==
    IF TAILQ_FIRST(s.c.partial_slab_list) # NULL THEN [s |-> s, ok |-> TRUE]
    ELSE The({
        IF ~g.ret
        THEN [s |-> IF "MEM_ERROR" \in flags THEN g.s
                    ELSE SlabPanic(g.s, "[German Accent]: OOM for a small slab growth!!!"),
              ok |-> FALSE]
        ELSE [s |-> [g.s EXCEPT !.c.empty_slab_list = Tail(@),
                                !.c.partial_slab_list =
                                    TAILQ_INSERT_HEAD(@, Head(g.s.c.empty_slab_list))],
              ok |-> TRUE]
        : g \in {IF s.c.empty_slab_list = <<>> THEN kmem_cache_grow(s)
                 ELSE [s |-> s, ret |-> TRUE]}})

\* No object: the NULL that kmem_cache_alloc starts from.
NoObject == <<>>

\* An allocation that does not count itself in nr_cur_alloc.
TakeObject_uncounted(s, a_slab) ==
    IF SlabStopped(s) THEN [s |-> s, ret |-> NoObject]
    ELSE IF s.slabs[a_slab].free = <<>>
    THEN [s |-> SlabPanic(s, "page fault: free_small_obj is NULL"), ret |-> NoObject]
    ELSE [s |-> [s EXCEPT !.slabs[a_slab].free = Tail(@),
                          !.slabs[a_slab].num_busy_obj = @ + 1,
                          !.c = IF s.slabs[a_slab].num_busy_obj + 1
                                      = s.slabs[a_slab].num_total_obj
                                THEN [Unlinked(@, a_slab) EXCEPT
                                         !.full_slab_list = TAILQ_INSERT_HEAD(@, a_slab)]
                                ELSE @],
          ret |-> <<a_slab, Head(s.slabs[a_slab].free)>>]

\* retval and what follows it in kmem_cache_alloc, from the slab a_slab.
TakeObject(s, a_slab) ==
    IF SlabStopped(s) THEN [s |-> s, ret |-> NoObject]
    ELSE IF s.slabs[a_slab].free = <<>>
    THEN [s |-> SlabPanic(s, "page fault: free_small_obj is NULL"), ret |-> NoObject]
    ELSE [s |-> [s EXCEPT !.slabs[a_slab].free = Tail(@),
                          !.slabs[a_slab].num_busy_obj = @ + 1,
                          !.c = IF s.slabs[a_slab].num_busy_obj + 1
                                      = s.slabs[a_slab].num_total_obj
                                THEN [Unlinked(@, a_slab) EXCEPT
                                         !.full_slab_list = TAILQ_INSERT_HEAD(@, a_slab)]
                                ELSE @,
                          !.c.nr_cur_alloc = @ + 1],
          ret |-> <<a_slab, Head(s.slabs[a_slab].free)>>]

\* Returns [s, ret]: ret is the object, or NoObject.
kmem_cache_alloc(s, flags) ==
    The({IF ~p.ok THEN [s |-> p.s, ret |-> NoObject]
         ELSE TakeObject(Touch(p.s, Head(p.s.c.partial_slab_list)),
                         Head(p.s.c.partial_slab_list)) :
            p \in {APartialSlab(s, flags)}})

\* The slab of buf is found from the address of buf (small) or through its
\* bufctl (large).
kmem_cache_free(s, buf) ==
    The({
        IF SlabStopped(t) THEN t
        ELSE [t EXCEPT !.slabs[buf[1]].free = <<buf[2]>> \o @,
                       !.slabs[buf[1]].num_busy_obj = @ - 1,
                       !.c = IF (t.slabs[buf[1]].num_busy_obj - 1) + 1
                                   = t.slabs[buf[1]].num_total_obj
                             THEN [Unlinked(@, buf[1]) EXCEPT
                                      !.partial_slab_list = TAILQ_INSERT_HEAD(@, buf[1])]
                             ELSE IF t.slabs[buf[1]].num_busy_obj - 1 = 0
                             THEN [Unlinked(@, buf[1]) EXCEPT
                                      !.empty_slab_list = TAILQ_INSERT_HEAD(@, buf[1])]
                             ELSE @,
                       !.c.nr_cur_alloc = @ - 1]
        : t \in {Touch(s, buf[1])}})

\* The pages of the slab go back to the page allocator; of a large slab, the
\* bufctls of its free list and its header go back to their caches.
kmem_slab_destroy(s, a_slab) ==
    IF SlabStopped(s) THEN s
    ELSE IF s.c.obj_size <= SLAB_LARGE_CUTOFF
    THEN [s EXCEPT !.pages = @ + 1,
                   !.slabs[a_slab].live = FALSE,
                   !.log = Append(@, a_slab)]
    ELSE The({
        IF SlabStopped(t) THEN t
        ELSE [t EXCEPT !.bufctls = @ - Len(t.slabs[a_slab].free),
                       !.pages = @ + 2 ^ order_pg_alloc(t.slabs[a_slab].obj_size),
                       !.hdrs = @ - 1,
                       !.slabs[a_slab].live = FALSE,
                       !.log = Append(@, a_slab)]
        : t \in {Touch(s, a_slab)}})

\* The while loop over the empty list: next is read from a_slab before a_slab
\* is destroyed, and no slab leaves the list.
RECURSIVE DestroyFrom(_, _)
DestroyFrom(s, i) ==
    IF SlabStopped(s) \/ i > Len(s.c.empty_slab_list) THEN s
    ELSE DestroyFrom(kmem_slab_destroy(Touch(s, s.c.empty_slab_list[i]),
                                       s.c.empty_slab_list[i]),
                     i + 1)

kmem_cache_reap(s) == DestroyFrom(s, 1)

\* The objects of the three seed caches: slab.h is not part of the sources at
\* hand; these are the sizes of the 64-bit build.
SIZEOF_KMEM_CACHE == 128
SIZEOF_KMEM_BUFCTL == 24

\* A cache that goes to the head of kmem_caches whatever its size.
Registered_first(reg, kc) ==
    InsertAt(reg, 1, [name |-> kc.name, obj_size |-> kc.obj_size])

\* The end of __kmem_cache_create: kc goes after the caches at the head of
\* kmem_caches that are smaller than it, before the first that is not.
Registered(reg, kc) ==
    InsertAt(reg,
             SetMin({i \in 1..Len(reg) : ~(reg[i].obj_size < kc.obj_size)}
                        \cup {Len(reg) + 1}),
             [name |-> kc.name, obj_size |-> kc.obj_size])

\* kmem_caches after kmem_cache_init.
kmem_cache_init ==
    Registered(Registered(Registered(<<>>, [name |-> "kmem_cache",
                                            obj_size |-> SIZEOF_KMEM_CACHE]),
                          [name |-> "kmem_slab", obj_size |-> SIZEOF_KMEM_SLAB]),
               [name |-> "kmem_bufctl", obj_size |-> SIZEOF_KMEM_BUFCTL])

\* SLIST_REMOVE(&kmem_caches, cp, kmem_cache, link)
SLIST_REMOVE(reg, name) == SelectSeq(reg, LAMBDA kc : kc.name # name)

\* The struct kmem_cache from kmem_cache_cache, set up and put on kmem_caches.
kmem_cache_create(s, name, obj_size, align, ctor) ==
    [s EXCEPT !.kcs = @ + 1,
              !.c = __kmem_cache_create(name, obj_size, align, ctor),
              !.reg = Registered(@, __kmem_cache_create(name, obj_size, align, ctor))]

\* The slabs of the empty list are destroyed as in kmem_cache_reap; the cache
\* leaves kmem_caches and its memory goes back to kmem_cache_cache.
kmem_cache_destroy(s) ==
    IF SlabStopped(s) THEN s
    ELSE IF s.c.full_slab_list # <<>>
    THEN SlabPanic(s, "assert TAILQ_EMPTY(&cp->full_slab_list)")
    ELSE IF s.c.partial_slab_list # <<>>
    THEN SlabPanic(s, "assert TAILQ_EMPTY(&cp->partial_slab_list)")
    ELSE The({IF SlabStopped(d) THEN d
              ELSE [d EXCEPT !.reg = SLIST_REMOVE(@, d.c.name),
                             !.kcs = @ - 1,
                             !.c = NoCache] :
                 d \in {DestroyFrom(s, 1)}})

(***************************************************************************)
(* Construction.                                                           *)
(***************************************************************************)
\* The fields that arena_init sets; last_nextfit_alloc is not one of them and
\* keeps whatever the memory held: a read of it can find any value
\* (w.how.garbage).
arena_init(name, quantum, source) ==
    [name |-> name, source |-> source, is_base |-> FALSE, quantum |-> quantum,
     import_scale |-> 0,
     amt_total_segs |-> 0, amt_alloc_segs |-> 0, nr_allocs |-> 0,
     all_segs |-> <<>>, unused_btags |-> NULL,
     free_segs |-> [i \in 0..(ARENA_NR_FREE_LISTS - 1) |-> NULL],
     alloc_hash |-> [i \in 0..(ARENA_NR_HASH_LISTS - 1) |-> NULL],
     last_nextfit_alloc |-> Uninitialized]

\* No arena: the name is empty.
NoArena == arena_init("", 0, FALSE)

Exists(a) == a.name # ""

\* The arena built in a page, with the two tags that follow it in the page.
arena_builder(w, name, quantum, source) ==
    InsertUnused([w EXCEPT !.a = [arena_init(name, quantum, source) EXCEPT !.is_base = ~source],
                           !.t = <<btag(0, 0, "NONE"), btag(0, 0, "NONE")>>],
                 1, 2)

\* Returns the world; the arena is NoArena when arena_create returns 0.  The
\* arena_destroy of the failure path finds an arena without tags.
arena_create(w, name, base, size, quantum, source, flags) ==
    IF source /\ base # NULL
    THEN Panic(w, "Arena can't have both a source and an initial span")
    ELSE IF base = NULL THEN [w EXCEPT !.a = arena_init(name, quantum, source)]
    ELSE The({IF Stopped(add.w) \/ add.ret # NULL THEN add.w
              ELSE [add.w EXCEPT !.a = NoArena] :
                 add \in {arena_add([w EXCEPT !.a = arena_init(name, quantum, source)],
                                    base, size, flags)}})

\* The offset of an address in its page.
PGOFF(addr) == addr % PGSIZE

\* arena_destroy reads the start of every unused tag to tell the first tag of
\* a page; a tag that was never written holds anything.
ReadsAsPage(w, bt) == Junk(w, bt) \/ (~Uninit(w, bt) /\ PGOFF(w.t[bt].start) = 0)

\* The hash chains are to be empty, and the free lists of an arena with a
\* source.  The free tags join the unused ones, and every unused tag whose
\* start is page aligned is freed as a page to the base arena, which has no
\* allocation at page 0 nor at what an unwritten tag holds; then the arena
\* and its tags are gone.
arena_destroy(w) ==
    IF Stopped(w) THEN w
    ELSE IF \E i \in DOMAIN w.a.alloc_hash : w.a.alloc_hash[i] # NULL
    THEN Panic(w, "assert BSD_LIST_EMPTY(&arena->alloc_hash[i])")
    ELSE IF w.a.source /\ \E i \in DOMAIN w.a.free_segs : w.a.free_segs[i] # NULL
    THEN Panic(w, "assert BSD_LIST_EMPTY(&arena->free_segs[i])")
    ELSE The({IF l.cyclic \/ u.cyclic THEN Panic(w, "hang: cyclic free list")
              ELSE IF \E k \in 1..Len(l.seq \o u.seq) :
                         /\ ReadsAsPage(w, (l.seq \o u.seq)[k])
                         /\ \/ Uninit(w, (l.seq \o u.seq)[k])
                            \/ w.t[(l.seq \o u.seq)[k]].start = 0
              THEN Panic(w, "Free of unallocated addr")
              ELSE [w EXCEPT !.a = NoArena, !.t = <<>>, !.got = {}, !.own = {},
                             !.pages = @ + Cardinality({k \in 1..Len(l.seq \o u.seq) :
                                                          ReadsAsPage(w, (l.seq \o u.seq)[k])})] :
                 l \in {FreeListsFrom(w, 0)}, u \in {BSD_LIST(w, LocUnused)}})

(***************************************************************************)
(* The state machine: one action per call of the interface.                *)
(***************************************************************************)
World == [a |-> arena, t |-> tags, src |-> source_free, pages |-> base_pages,
          own |-> btag_pages, got |-> regions, ff |-> <<>>, af |-> <<>>, panic |-> "",
          how |-> [pol |-> "low", rb |-> FALSE, garbage |-> 0, junk |-> FALSE]]

\* The world of a call, with what the call leaves open.
WorldOf(how) == [World EXCEPT !.how = how]

NoArgs == [addr |-> 0, size |-> 0, align |-> 0, phase |-> 0, nocross |-> 0,
           minaddr |-> 0, maxaddr |-> 0, flags |-> {}, source |-> FALSE]

\* The state after a call that left the world w and returned ret.
Becomes(w, op, args, ret) ==
    /\ arena' = w.a
    /\ tags' = w.t
    /\ source_free' = w.src
    /\ base_pages' = w.pages
    /\ btag_pages' = w.own
    /\ regions' = w.got
    /\ panicked' = w.panic
    /\ last' = [op |-> op, args |-> args, ret |-> ret, ff |-> w.ff, af |-> w.af]
    /\ nr_calls' = nr_calls + 1
    /\ UNCHANGED <<slab_vars, lock_vars>>

\* The inputs.  The base arena manages pages; the others, small numbers.
Unit == IF arena.is_base THEN PGSIZE ELSE 1
Addrs == {u * Unit : u \in 0..(NrUnits - 1)}
Sizes == {k * Unit : k \in 0..MaxSize}
\* The base arena manages the kernel's pages, and page 0 is not one of them.
Regions ==
    IF arena.is_base THEN {<<Unit, 3 * Unit>>, <<Unit, Unit>>, <<2 * Unit, 2 * Unit>>}
    ELSE {<<0, 4 * Unit>>, <<0, 2 * Unit>>, <<2 * Unit, 2 * Unit>>, <<Unit, Unit>>}
MemFlags == {{}, {"MEM_ATOMIC"}}
Styles == {{}, {"ARENA_BESTFIT"}, {"ARENA_NEXTFIT"}}
AllocFlags == {m \cup st : m \in MemFlags, st \in Styles}
\* What a call leaves open, as far as the call can depend on it.
\* A list or a chain of the arena runs into a tag that was never written.
HasJunk(first) ==
    /\ first # NULL
    /\ \E l \in {ListFrom(World, first, {})} :
          \E i \in 1..Len(l.seq) : tags[l.seq[i]].status = "NONE"
JunkInReach ==
    \/ \E i \in DOMAIN arena.free_segs : HasJunk(arena.free_segs[i])
    \/ \E i \in DOMAIN arena.alloc_hash : HasJunk(arena.alloc_hash[i])

Junks == IF JunkInReach THEN BOOLEAN ELSE {FALSE}
Hows(op, flags, junk) ==
    [pol : IF arena.source /\ op = "alloc" THEN {"low", "high"} ELSE {"low"},
     rb : IF "ARENA_NEXTFIT" \in flags THEN BOOLEAN ELSE {FALSE},
     garbage : IF "ARENA_NEXTFIT" \in flags /\ arena.last_nextfit_alloc = Uninitialized
               THEN {0, 2 * Unit} ELSE {0},
     junk : {junk}]
\* The addresses the source starts with; it keeps address 0 for itself, which
\* arena_alloc cannot tell from a failure.
SourceRange == 1..NrUnits

\* Calls of arena_alloc: <<size, flags>>.  A request for zero is made once.
AllocInputs == ((Sizes \ {0}) \X AllocFlags) \cup {<<0, {}>>}

\* Calls of arena_xalloc: <<size, align, phase, nocross, minaddr, maxaddr>>, in
\* units, and the flags.  The style plays no part between minaddr and maxaddr,
\* nor in the entry checks.
Unconstrained == {<<1, 1, 0, 0, 0, 0>>, <<2, 2, 0, 0, 0, 0>>, <<1, 2, 1, 0, 0, 0>>}
Nocross == {<<1, 2, 0, 2, 0, 0>>, <<2, 2, 1, 2, 0, 0>>, <<3, 1, 0, 2, 0, 0>>}
MinMax == {<<1, 1, 0, 0, 2, 0>>, <<1, 1, 0, 0, 0, 2>>, <<1, 1, 0, 0, 1, 3>>}
Rejected == {<<1, 3, 0, 0, 0, 0>>, <<0, 1, 0, 0, 0, 0>>}
XallocInputs ==
    (Unconstrained \X AllocFlags) \cup (Nocross \X {{}, {"ARENA_BESTFIT"}})
        \cup (MinMax \X MemFlags) \cup (Rejected \X {{}})

\* Calls of arena_free and arena_xfree: what the callers hold (the segments
\* that are allocated, but for the pages of the arena's own tags), and the
\* calls the callers must not make: a wrong size for the lowest segment, and
\* the lowest address that is not the start of an allocated segment.
Held == {bt \in 1..Len(tags) : /\ InSeq(arena.all_segs, bt)
                               /\ tags[bt].status = "ALLOC"
                               /\ tags[bt].start \notin btag_pages}
Lowest(S) == {bt \in S : \A o \in S : tags[bt].start <= tags[o].start}
Unheld == {a \in Addrs : \A bt \in Held : tags[bt].start # a}
FreeInputs(rounded) ==
    {<<tags[bt].start, IF rounded THEN tags[bt].size ELSE tags[bt].size - arena.quantum + 1>> :
        bt \in Held}
    \cup {<<tags[bt].start, tags[bt].size + arena.quantum>> : bt \in Lowest(Held)}
    \cup {<<a, Unit>> : a \in {x \in Unheld : \A y \in Unheld : x <= y}}

\* The segment [base, base + size) overlaps no segment of the arena.
Fresh(base, size) ==
    \A i \in 1..Len(arena.all_segs) :
        \/ base + size <= tags[arena.all_segs[i]].start
        \/ tags[arena.all_segs[i]].start + tags[arena.all_segs[i]].size <= base

\* The threads of the kernel that call into the allocators, and the
\* spinlocks: of the three arenas a call can reach (the arena, its source and
\* the base arena), of the slab cache (cache_lock) and of the list of the
\* caches (kmem_caches_lock).  A lock holds the thread that has it, or 0.
NrThreads == 2
Threads == 1..NrThreads
Unlocked == [l \in {"arena", "source", "base", "cache", "kmem_caches", "futex"} |-> 0]
\* A thread outside the arena code; mine is what its calls returned.
Idle == [pc |-> "idle", op |-> "", size |-> 0, flags |-> {}, addr |-> 0, need |-> 0,
         back |-> "", page |-> NULL, span |-> NULL, spansz |-> 0, mine |-> {}]

\* __futex and the flag of futex_init before the first call of futex: static
\* storage, all zero.  lock_ready and queue_ready tell that mcs_pdr_init and
\* TAILQ_INIT have run, element_cache is 0 (no cache) or the number of the
\* cache made last, bodies counts the runs of the body of futex_init, early
\* tells that the queue or the cache was used before it was set up, and wake
\* is the last futex_wake: its arguments, the queue it found and the threads
\* it made runnable, in order.
NoFutex ==
    [initialized |-> FALSE, lock_ready |-> FALSE, queue_ready |-> FALSE,
     element_cache |-> 0, queue |-> <<>>, bodies |-> 0, early |-> FALSE,
     wake |-> [uaddr |-> 0, count |-> 0, before |-> <<>>, woken |-> <<>>]]

\* The kernel runs until it panics; the model follows it for MaxCalls calls.
Running == panicked = "" /\ nr_calls < MaxCalls

Init ==
    /\ arena = NoArena
    /\ tags = <<>>
    /\ source_free = {}
    /\ base_pages = 0
    /\ btag_pages = {}
    /\ regions = {}
    /\ last = [op |-> "boot", args |-> NoArgs, ret |-> NULL, ff |-> <<>>, af |-> <<>>]
    /\ cache = NoCache
    /\ slabs = <<>>
    /\ pages_left = 0
    /\ seed = [hdrs |-> 0, bufctls |-> 0, kcs |-> 0]
    /\ held = {}
    /\ slab_last = [op |-> "boot", ret |-> NoObject, log |-> <<>>]
    /\ kmem_caches = kmem_cache_init
    /\ lock = Unlocked
    /\ thread = [t \in Threads |-> Idle]
    /\ futex = NoFutex
    /\ panicked = ""
    /\ nr_calls = 0

ArenaBuilder ==
    /\ Running /\ ~Exists(arena)
    /\ \E source \in BOOLEAN :
         \E quantum \in (IF source THEN {1, 2} ELSE {PGSIZE}),
            pages \in (IF source THEN 0..MaxBasePages ELSE {0}) :
            Becomes(arena_builder([World EXCEPT !.src = IF source THEN SourceRange ELSE {},
                                                !.pages = pages],
                                  "built", quantum, source),
                    "arena_builder", [NoArgs EXCEPT !.size = quantum, !.source = source], 1)

ArenaCreate ==
    /\ Running /\ ~Exists(arena)
    /\ \E source \in BOOLEAN, quantum \in {1, 2}, base \in {0, 2}, flags \in MemFlags,
          pages \in 0..MaxBasePages :
            \E w \in {arena_create([World EXCEPT !.src = IF source THEN SourceRange ELSE {},
                                                 !.pages = pages],
                                   "created", base, 2, quantum, source, flags)} :
               Becomes(w, "arena_create",
                       [NoArgs EXCEPT !.addr = base, !.size = quantum, !.flags = flags,
                                      !.source = source],
                       IF Exists(w.a) /\ w.panic = "" THEN 1 ELSE NULL)

ArenaAdd ==
    /\ Running /\ Exists(arena)
    /\ \E r \in Regions, flags \in MemFlags :
         /\ Fresh(r[1], r[2])
         /\ \E a \in {arena_add(World, r[1], r[2], flags)} :
               Becomes(a.w, "arena_add",
                       [NoArgs EXCEPT !.addr = r[1], !.size = r[2], !.flags = flags], a.ret)

ArenaAlloc ==
    /\ Running /\ Exists(arena)
    /\ \E junk \in Junks, in \in AllocInputs :
         \E how \in Hows("alloc", in[2], junk) :
            \E r \in {arena_alloc(WorldOf(how), in[1], in[2])} :
               Becomes(r.w, "arena_alloc",
                       [NoArgs EXCEPT !.size = in[1], !.flags = in[2]], r.ret)

ArenaXalloc ==
    /\ Running /\ Exists(arena)
    /\ \E junk \in Junks, in \in XallocInputs :
         \E how \in Hows("alloc", in[2], junk) :
            \E c \in {[i \in 1..6 |-> in[1][i] * Unit]} :
               \E r \in {arena_xalloc(WorldOf(how), c[1], c[2], c[3], c[4], c[5], c[6],
                                      in[2])} :
                  Becomes(r.w, "arena_xalloc",
                          [NoArgs EXCEPT !.size = c[1], !.align = c[2], !.phase = c[3],
                                         !.nocross = c[4], !.minaddr = c[5],
                                         !.maxaddr = c[6], !.flags = in[2]], r.ret)

ArenaFree ==
    /\ Running /\ Exists(arena)
    /\ \E junk \in Junks, in \in FreeInputs(FALSE) :
       \E how \in Hows("free", {}, junk) :
         Becomes(arena_free(WorldOf(how), in[1], in[2]), "arena_free",
                 [NoArgs EXCEPT !.addr = in[1], !.size = in[2]], NULL)

ArenaXfree ==
    /\ Running /\ Exists(arena)
    /\ \E junk \in Junks, in \in FreeInputs(TRUE) :
       \E how \in Hows("free", {}, junk) :
         Becomes(arena_xfree(WorldOf(how), in[1], in[2]), "arena_xfree",
                 [NoArgs EXCEPT !.addr = in[1], !.size = in[2]], NULL)

\* The base arena is never destroyed.
ArenaDestroy ==
    /\ Running /\ Exists(arena) /\ ~arena.is_base
    /\ \E junk \in BOOLEAN :
          Becomes(arena_destroy(WorldOf([pol |-> "low", rb |-> FALSE, garbage |-> 0,
                                         junk |-> junk])),
                  "arena_destroy", NoArgs, NULL)

Next ==
    \/ ArenaBuilder
    \/ ArenaCreate
    \/ ArenaAdd
    \/ ArenaAlloc
    \/ ArenaXalloc
    \/ ArenaFree
    \/ ArenaXfree
    \/ ArenaDestroy

Spec == Init /\ [][Next]_vars

(***************************************************************************)
(* The state machine of a slab cache: one action per call.                 *)
(***************************************************************************)
MaxSlabPages == 4
MaxSlabCalls == 7

SlabWorld(intact) ==
    [c |-> cache, slabs |-> slabs, pages |-> pages_left, hdrs |-> seed.hdrs,
     bufctls |-> seed.bufctls, kcs |-> seed.kcs, reg |-> kmem_caches, log |-> <<>>,
     panic |-> "", intact |-> intact]

\* The state after a call that left the world s, returned ret and left the
\* callers with the objects objs.
SlabBecomes(s, op, ret, objs) ==
    /\ cache' = s.c
    /\ slabs' = s.slabs
    /\ pages_left' = s.pages
    /\ seed' = [hdrs |-> s.hdrs, bufctls |-> s.bufctls, kcs |-> s.kcs]
    /\ kmem_caches' = s.reg
    /\ held' = objs
    /\ slab_last' = [op |-> op, ret |-> ret, log |-> s.log]
    /\ panicked' = s.panic
    /\ nr_calls' = nr_calls + 1
    /\ UNCHANGED <<arena_vars, lock_vars>>

\* The caches: <<obj_size, align>>.  One object to a slab, three to a slab,
\* and large objects.
Caches == {<<64, 2048>>, <<64, 1024>>, <<1024, 8>>}

\* What a read of freed memory finds matters when a list holds a slab that
\* was destroyed.
Intacts ==
    IF \E sl \in 1..Len(slabs) :
          /\ ~slabs[sl].live
          /\ \/ InSeq(cache.empty_slab_list, sl)
             \/ InSeq(cache.partial_slab_list, sl)
             \/ InSeq(cache.full_slab_list, sl)
    THEN BOOLEAN ELSE {TRUE}

CacheExists == cache.name # ""
SlabRunning == panicked = "" /\ nr_calls < MaxSlabCalls

CacheCreate ==
    /\ SlabRunning /\ ~CacheExists
    /\ \E kc \in Caches, ctor \in BOOLEAN, pages \in 1..MaxSlabPages :
         SlabBecomes(kmem_cache_create([SlabWorld(TRUE) EXCEPT !.pages = pages],
                                       "cache", kc[1], kc[2], ctor),
                     "kmem_cache_create", NoObject, {})

CacheAlloc ==
    /\ SlabRunning /\ CacheExists
    /\ \E intact \in Intacts, flags \in {{}, {"MEM_ERROR"}} :
         \E r \in {kmem_cache_alloc(SlabWorld(intact), flags)} :
            SlabBecomes(r.s, "kmem_cache_alloc", r.ret,
                        IF r.ret = NoObject THEN held ELSE held \cup {r.ret})

CacheFree ==
    /\ SlabRunning /\ CacheExists
    /\ \E intact \in Intacts, buf \in held :
         SlabBecomes(kmem_cache_free(SlabWorld(intact), buf), "kmem_cache_free", NoObject,
                     held \ {buf})

CacheReap ==
    /\ SlabRunning /\ CacheExists
    /\ \E intact \in Intacts :
         SlabBecomes(kmem_cache_reap(SlabWorld(intact)), "kmem_cache_reap", NoObject, held)

CacheDestroy ==
    /\ SlabRunning /\ CacheExists
    /\ \E intact \in Intacts :
         SlabBecomes(kmem_cache_destroy(SlabWorld(intact)), "kmem_cache_destroy", NoObject,
                     held)

SlabNext ==
    \/ CacheCreate
    \/ CacheAlloc
    \/ CacheFree
    \/ CacheReap
    \/ CacheDestroy

SlabSpec == Init /\ [][SlabNext]_vars

(***************************************************************************)
(* Imports with a scale.  arena_init leaves import_scale 0; the field is   *)
(* the arena's to tune, and get_more_resources shifts by whatever it       *)
(* holds.  The arenas here start as arena_builder leaves them, with a      *)
(* source and an import_scale drawn from ImportScales.                     *)
(***************************************************************************)
MaxScale == 1
\* Small shifts, and the largest shift of a machine word.
ImportScales == (0..MaxScale) \cup {WordBits - 1}

ImportStart(scale, quantum, pages) ==
    The({[w EXCEPT !.a.import_scale = scale] :
            w \in {arena_builder([a |-> NoArena, t |-> <<>>, src |-> SourceRange,
                                  pages |-> pages, own |-> {}, got |-> {}, ff |-> <<>>,
                                  af |-> <<>>, panic |-> "",
                                  how |-> [pol |-> "low", rb |-> FALSE, garbage |-> 0,
                                           junk |-> FALSE]],
                                 "built", quantum, TRUE)}})

ImportInit ==
    /\ \E scale \in ImportScales, quantum \in {1, 2}, pages \in 0..MaxBasePages :
          \E w \in {ImportStart(scale, quantum, pages)} :
             /\ arena = w.a
             /\ tags = w.t
             /\ source_free = w.src
             /\ base_pages = w.pages
             /\ btag_pages = w.own
             /\ regions = w.got
    /\ last = [op |-> "arena_builder", args |-> [NoArgs EXCEPT !.source = TRUE], ret |-> 1,
               ff |-> <<>>, af |-> <<>>]
    /\ cache = NoCache
    /\ slabs = <<>>
    /\ pages_left = 0
    /\ seed = [hdrs |-> 0, bufctls |-> 0, kcs |-> 0]
    /\ held = {}
    /\ slab_last = [op |-> "boot", ret |-> NoObject, log |-> <<>>]
    /\ kmem_caches = kmem_cache_init
    /\ lock = Unlocked
    /\ thread = [t \in Threads |-> Idle]
    /\ futex = NoFutex
    /\ panicked = ""
    /\ nr_calls = 0

ImportNext ==
    \/ ArenaAlloc
    \/ ArenaFree

ImportSpec == ImportInit /\ [][ImportNext]_vars

(***************************************************************************)
(* The arena code run by several threads.  Each thread is inside at most   *)
(* one call; a step of a thread is either the acquisition of a spinlock or *)
(* the code it runs from there to the next unlock.  The arena has a source *)
(* and is not the base arena: its boundary tags come from the base arena   *)
(* (arena_alloc(find_my_base(arena), PGSIZE)), its spans from the source   *)
(* (afunc is arena_alloc on the source, ffunc is arena_free), and each of  *)
(* these takes the lock of the arena it is called on.  The threads also    *)
(* allocate from the source and free to it directly.                       *)
(***************************************************************************)
MaxLockCalls == 4
LockSizes == 1..2

spin_lock_irqsave(lk, name, t) == [lk EXCEPT ![name] = t]
spin_unlock_irqsave(lk, name) == [lk EXCEPT ![name] = 0]

\* Tag growth that calls the base arena with the arena's lock held.
__add_more_btags_locked(lk) == lk

\* spin_unlock_irqsave(&arena->lock) of __add_more_btags, before the call of
\* the base arena.
__add_more_btags_unlock(lk) == spin_unlock_irqsave(lk, "arena")

\* The lock a thread at pc spins on, or "".
Wants(pc) ==
    CASE pc \in {"alloc_lock", "relock", "add_lock", "free_lock"} -> "arena"
      [] pc = "base_lock" -> "base"
      [] pc \in {"afunc_lock", "ffunc_lock"} -> "source"
      [] pc \in {"kalloc_lock", "kfree_lock"} -> "cache"
      [] pc \in {"create_lock", "destroy_lock"} -> "kmem_caches"
      [] pc \in {"wait_lock", "wake_lock"} -> "futex"
      [] OTHER -> ""

\* Where the thread is once it has the lock.
Locked(pc) ==
    CASE pc = "alloc_lock" -> "alloc_body"
      [] pc = "relock" -> "regrown"
      [] pc = "add_lock" -> "add_body"
      [] pc = "free_lock" -> "free_body"
      [] pc = "base_lock" -> "base_body"
      [] pc = "afunc_lock" -> "afunc_body"
      [] pc = "ffunc_lock" -> "ffunc_body"
      [] pc = "kalloc_lock" -> "kalloc_body"
      [] pc = "kfree_lock" -> "kfree_body"
      [] pc = "create_lock" -> "create_body"
      [] pc = "destroy_lock" -> "destroy_body"
      [] pc = "wait_lock" -> "wait_body"
      [] pc = "wake_lock" -> "wake_body"

\* The state after a step of thread t that left the world w, the locks lk and
\* the thread as th.
LockStep(w, lk, t, th) ==
    /\ arena' = w.a
    /\ tags' = w.t
    /\ source_free' = w.src
    /\ base_pages' = w.pages
    /\ btag_pages' = w.own
    /\ regions' = w.got
    /\ panicked' = w.panic
    /\ lock' = lk
    /\ thread' = [thread EXCEPT ![t] = th]
    /\ UNCHANGED <<futex, last, slab_vars, nr_calls>>

\* The thread after its call returned; got is what the call gave it.
Returned(t, got) == [Idle EXCEPT !.mine = thread[t].mine \cup got]

\* The calls a thread can make: arena_alloc and arena_free on the arena, and
\* the same on the source.
Calls(t) ==
    {[thread[t] EXCEPT !.pc = "alloc_lock", !.op = "arena_alloc",
                       !.size = ROUNDUP(size, arena.quantum), !.flags = flags] :
        size \in LockSizes, flags \in MemFlags}
    \cup {[thread[t] EXCEPT !.pc = "free_lock", !.op = "arena_free", !.addr = m[2],
                            !.size = m[3], !.mine = @ \ {m}] :
             m \in {x \in thread[t].mine : x[1] = "arena"}}
    \cup {[thread[t] EXCEPT !.pc = "afunc_lock", !.op = "source_alloc",
                            !.spansz = arena.quantum, !.flags = {"MEM_ATOMIC"}]}
    \cup {[thread[t] EXCEPT !.pc = "ffunc_lock", !.op = "source_free", !.span = m[2],
                            !.spansz = m[3], !.mine = @ \ {m}] :
             m \in {x \in thread[t].mine : x[1] = "source"}}

\* A thread enters arena_alloc or arena_free.
Enter ==
    /\ panicked = "" /\ nr_calls < MaxLockCalls
    /\ \E t \in Threads :
          /\ thread[t].pc = "idle"
          /\ \E c \in Calls(t) : thread' = [thread EXCEPT ![t] = c]
    /\ nr_calls' = nr_calls + 1
    /\ UNCHANGED <<futex, arena_vars, slab_vars, lock, panicked>>

\* spin_lock_irqsave: the thread gets the lock when no thread has it.
Acquire ==
    /\ panicked = ""
    /\ \E t \in DOMAIN thread :
          /\ Wants(thread[t].pc) # ""
          /\ lock[Wants(thread[t].pc)] = 0
          /\ lock' = spin_lock_irqsave(lock, Wants(thread[t].pc), t)
          /\ thread' = [thread EXCEPT ![t].pc = Locked(thread[t].pc)]
    /\ UNCHANGED <<futex, arena_vars, slab_vars, panicked, nr_calls>>

\* alloc_from_arena from the point where the arena has its tags to the
\* unlock; arena_alloc then returns or goes to its source.
Fit(t, w) ==
    \E r \in {alloc_from_arena(w, thread[t].size, thread[t].flags)} :
       LockStep(r.w, spin_unlock_irqsave(lock, "arena"), t,
                IF r.ret # NULL THEN Returned(t, {<<"arena", r.ret, thread[t].size>>})
                ELSE [thread[t] EXCEPT !.pc = "afunc_lock",
                                       !.spansz = import_size(w, thread[t].size)])

\* __arena_add from the point where the arena has its tags to the unlock;
\* get_more_resources then lets arena_alloc try again or gives the span back.
Add(t, w) ==
    \E r \in {__arena_add(w, thread[t].span, thread[t].spansz, thread[t].flags)} :
       LockStep(r.w, spin_unlock_irqsave(lock, "arena"), t,
                [thread[t] EXCEPT !.pc = IF r.ret # NULL THEN "alloc_lock" ELSE "ffunc_lock"])

\* The thread drops the arena's lock to ask the base arena for a page of tags.
Grow(t, nr_needed, back) ==
    LockStep(World, __add_more_btags_unlock(lock), t,
             [thread[t] EXCEPT !.pc = "base_lock", !.need = nr_needed, !.back = back])

\* alloc_from_arena with the lock.
AllocBody ==
    /\ panicked = ""
    /\ \E t \in Threads :
          /\ thread[t].pc = "alloc_body"
          /\ IF __has_enough_btags(World, 1) THEN Fit(t, World) ELSE Grow(t, 1, "alloc")

\* __arena_add with the lock.
AddBody ==
    /\ panicked = ""
    /\ \E t \in Threads :
          /\ thread[t].pc = "add_body"
          /\ IF __has_enough_btags(World, 2) THEN Add(t, World) ELSE Grow(t, 2, "add")

\* arena_alloc of a page on the base arena, with the base arena's lock.
BaseBody ==
    /\ panicked = ""
    /\ \E t \in Threads :
          /\ thread[t].pc = "base_body"
          /\ IF base_pages > 0
             THEN LockStep([World EXCEPT !.pages = @ - 1], spin_unlock_irqsave(lock, "base"),
                           t, [thread[t] EXCEPT !.pc = "relock",
                                                !.page = PGSIZE * base_pages])
             ELSE LockStep(assert(World, "MEM_ATOMIC" \in thread[t].flags, "OOM!"),
                           spin_unlock_irqsave(lock, "base"),
                           t, [thread[t] EXCEPT !.pc = "relock", !.page = NULL])

\* __add_more_btags after it has the arena's lock again, __get_enough_btags
\* and the rest of the caller.
Regrown ==
    /\ panicked = ""
    /\ \E t \in Threads :
          /\ thread[t].pc = "regrown"
          /\ IF thread[t].page = NULL
             THEN LockStep(assert(World, "MEM_ATOMIC" \in thread[t].flags,
                                  "assert mem_flags & MEM_ATOMIC"),
                           spin_unlock_irqsave(lock, "arena"), t,
                           IF thread[t].back = "alloc"
                           THEN [thread[t] EXCEPT !.pc = "afunc_lock",
                                                  !.spansz = import_size(World, thread[t].size)]
                           ELSE [thread[t] EXCEPT !.pc = "ffunc_lock"])
             ELSE \E w \in {InsertUnused(NewPage(World), Len(tags) + 1, nr_bts)} :
                     \E v \in {assert(w, __has_enough_btags(w, thread[t].need),
                                      "assert __has_enough_btags")} :
                        IF thread[t].back = "alloc" THEN Fit(t, v) ELSE Add(t, v)

\* afunc: arena_alloc on the source, with the source's lock.
AfuncBody ==
    /\ panicked = ""
    /\ \E t \in Threads :
          /\ thread[t].pc = "afunc_body"
          /\ \E r \in {afunc(World, thread[t].spansz, thread[t].flags)} :
                LockStep(r.w, spin_unlock_irqsave(lock, "source"), t,
                         IF thread[t].op = "source_alloc"
                         THEN Returned(t, IF r.ret # NULL
                                          THEN {<<"source", r.ret, thread[t].spansz>>}
                                          ELSE {})
                         ELSE IF r.ret = NULL THEN Returned(t, {})
                         ELSE [thread[t] EXCEPT !.pc = "add_lock", !.span = r.ret])

\* ffunc: arena_free on the source, with the source's lock.
FfuncBody ==
    /\ panicked = ""
    /\ \E t \in Threads :
          /\ thread[t].pc = "ffunc_body"
          /\ LockStep(ffunc(World, thread[t].span, thread[t].spansz),
                      spin_unlock_irqsave(lock, "source"), t, Returned(t, {}))

\* free_from_arena up to its unlock: [w, to_free_addr, to_free_sz].
free_from_arena_locked(w, addr, size) ==
    The({
        IF Stopped(bt.w) THEN NothingToFree(bt.w)
        ELSE IF bt.ret = NULL THEN NothingToFree(Panic(bt.w, "Free of unallocated addr"))
        ELSE IF bt.w.t[bt.ret].size # size
        THEN NothingToFree(Panic(bt.w, "Free with wrong size"))
        ELSE The({[c EXCEPT !.w.a.amt_total_segs = Wrap(@ - c.to_free_sz)] :
                     c \in {__coalesce_free_seg(
                              __track_free_seg(Unaccounted(bt.w, size), bt.ret),
                              bt.ret)}})
        : bt \in {__untrack_alloc_seg(w, addr)}})

\* free_from_arena with the lock; a span that became free goes to ffunc
\* after the unlock.
FreeBody ==
    /\ panicked = ""
    /\ \E t \in Threads :
          /\ thread[t].pc = "free_body"
          /\ \E f \in {free_from_arena_locked(World, thread[t].addr, thread[t].size)} :
                LockStep(f.w, spin_unlock_irqsave(lock, "arena"), t,
                         IF f.to_free_addr # NULL
                         THEN [thread[t] EXCEPT !.pc = "ffunc_lock",
                                                !.span = f.to_free_addr,
                                                !.spansz = f.to_free_sz]
                         ELSE Returned(t, {}))

\* The arena as arena_builder leaves it, with a source, and idle threads.
LockInit ==
    /\ \E quantum \in {1, 2}, pages \in 0..MaxBasePages :
          \E w \in {ImportStart(0, quantum, pages)} :
             /\ arena = w.a
             /\ tags = w.t
             /\ source_free = w.src
             /\ base_pages = w.pages
             /\ btag_pages = w.own
             /\ regions = w.got
    /\ last = [op |-> "arena_builder", args |-> [NoArgs EXCEPT !.source = TRUE], ret |-> 1,
               ff |-> <<>>, af |-> <<>>]
    /\ cache = NoCache
    /\ slabs = <<>>
    /\ pages_left = 0
    /\ seed = [hdrs |-> 0, bufctls |-> 0, kcs |-> 0]
    /\ held = {}
    /\ slab_last = [op |-> "boot", ret |-> NoObject, log |-> <<>>]
    /\ kmem_caches = kmem_cache_init
    /\ lock = Unlocked
    /\ thread = [t \in Threads |-> Idle]
    /\ futex = NoFutex
    /\ panicked = ""
    /\ nr_calls = 0

LockNext ==
    \/ Enter
    \/ Acquire
    \/ AllocBody
    \/ AddBody
    \/ BaseBody
    \/ Regrown
    \/ AfuncBody
    \/ FfuncBody
    \/ FreeBody

LockSpec == LockInit /\ [][LockNext]_vars

(***************************************************************************)
(* The slab cache used by several threads.  kmem_cache_alloc and           *)
(* kmem_cache_free take cache_lock at their first line and drop it at      *)
(* their last: a step of a thread is the acquisition of the lock, or the   *)
(* call's body up to the unlock.  The cache starts as kmem_cache_create    *)
(* leaves it.                                                              *)
(***************************************************************************)
MaxCacheCalls == 5

\* The state after a step of thread t on the cache that left the world s,
\* the locks lk and the thread as th.
SlabStep(s, lk, t, th) ==
    /\ cache' = s.c
    /\ slabs' = s.slabs
    /\ pages_left' = s.pages
    /\ seed' = [hdrs |-> s.hdrs, bufctls |-> s.bufctls, kcs |-> s.kcs]
    /\ kmem_caches' = s.reg
    /\ panicked' = s.panic
    /\ lock' = lk
    /\ thread' = [thread EXCEPT ![t] = th]
    /\ UNCHANGED <<futex, arena_vars, held, slab_last, nr_calls>>

\* A thread calls kmem_cache_alloc, or kmem_cache_free on an object it got.
KmemEnter ==
    /\ panicked = "" /\ nr_calls < MaxCacheCalls
    /\ \E t \in Threads :
          /\ thread[t].pc = "idle"
          /\ \/ \E flags \in {{}, {"MEM_ERROR"}} :
                   thread' = [thread EXCEPT ![t].pc = "kalloc_lock",
                                            ![t].op = "kmem_cache_alloc",
                                            ![t].flags = flags]
             \/ \E m \in {x \in thread[t].mine : x[1] = "obj"} :
                   thread' = [thread EXCEPT ![t].pc = "kfree_lock",
                                            ![t].op = "kmem_cache_free",
                                            ![t].addr = m[2]]
    /\ nr_calls' = nr_calls + 1
    /\ UNCHANGED <<futex, arena_vars, slab_vars, lock, panicked>>

\* kmem_cache_alloc with the lock.
KallocBody ==
    /\ panicked = ""
    /\ \E t \in Threads :
          /\ thread[t].pc = "kalloc_body"
          /\ \E r \in {kmem_cache_alloc(SlabWorld(TRUE), thread[t].flags)} :
                SlabStep(r.s, spin_unlock_irqsave(lock, "cache"), t,
                         Returned(t, IF r.ret = NoObject THEN {} ELSE {<<"obj", r.ret>>}))

\* kmem_cache_free with the lock.
KfreeBody ==
    /\ panicked = ""
    /\ \E t \in Threads :
          /\ thread[t].pc = "kfree_body"
          /\ SlabStep(kmem_cache_free(SlabWorld(TRUE), thread[t].addr),
                      spin_unlock_irqsave(lock, "cache"), t,
                      [Idle EXCEPT !.mine = thread[t].mine \ {<<"obj", thread[t].addr>>}])

\* The world before kmem_cache_create, with the page allocator holding pages.
SlabStart(pages) ==
    [c |-> NoCache, slabs |-> <<>>, pages |-> pages, hdrs |-> 0, bufctls |-> 0, kcs |-> 0,
     reg |-> kmem_cache_init, log |-> <<>>, panic |-> "", intact |-> TRUE]

CacheLockInit ==
    /\ \E kc \in Caches, pages \in 1..MaxSlabPages :
          \E s \in {kmem_cache_create(SlabStart(pages), "cache", kc[1], kc[2], FALSE)} :
             /\ cache = s.c
             /\ slabs = s.slabs
             /\ pages_left = s.pages
             /\ seed = [hdrs |-> s.hdrs, bufctls |-> s.bufctls, kcs |-> s.kcs]
             /\ kmem_caches = s.reg
    /\ held = {}
    /\ slab_last = [op |-> "kmem_cache_create", ret |-> NoObject, log |-> <<>>]
    /\ arena = NoArena
    /\ tags = <<>>
    /\ source_free = {}
    /\ base_pages = 0
    /\ btag_pages = {}
    /\ regions = {}
    /\ last = [op |-> "boot", args |-> NoArgs, ret |-> NULL, ff |-> <<>>, af |-> <<>>]
    /\ lock = Unlocked
    /\ thread = [t \in Threads |-> Idle]
    /\ futex = NoFutex
    /\ panicked = ""
    /\ nr_calls = 0

CacheLockNext ==
    \/ KmemEnter
    \/ Acquire
    \/ KallocBody
    \/ KfreeBody

CacheLockSpec == CacheLockInit /\ [][CacheLockNext]_vars

(***************************************************************************)
(* kmem_caches under several threads.  kmem_cache_create takes a struct    *)
(* kmem_cache from kmem_cache_cache, sets it up and puts it on kmem_caches *)
(* with kmem_caches_lock; kmem_cache_destroy takes it off the list with    *)
(* the lock and gives it back to kmem_cache_cache after the unlock.  A     *)
(* cache is destroyed by the thread that created it, and has no slab: its  *)
(* own cache_lock, which kmem_cache_destroy holds throughout, is the       *)
(* caller's alone.  The caches are named by the number of the call that    *)
(* created them.                                                           *)
(***************************************************************************)
MaxRegistryCalls == 4
\* obj_size of the caches created: as small as the smallest seed cache, as
\* large as the largest, and between.
RegistrySizes == {SIZEOF_KMEM_BUFCTL, 64, SIZEOF_KMEM_CACHE}

\* The state after a step of thread t that left kmem_caches as reg, with kcs
\* objects of kmem_cache_cache in use.
RegistryStep(reg, kcs, lk, t, th) ==
    /\ kmem_caches' = reg
    /\ seed' = [seed EXCEPT !.kcs = kcs]
    /\ lock' = lk
    /\ thread' = [thread EXCEPT ![t] = th]
    /\ UNCHANGED <<futex, arena_vars, cache, slabs, pages_left, held, slab_last, panicked>>

\* A thread calls kmem_cache_create, which takes its struct kmem_cache and
\* goes for the lock, or kmem_cache_destroy on a cache it created, which
\* finds the lists of the cache empty and goes for the lock.
RegistryEnter ==
    /\ panicked = "" /\ nr_calls < MaxRegistryCalls
    /\ \E t \in Threads :
          /\ thread[t].pc = "idle"
          /\ \/ \E obj_size \in RegistrySizes :
                   RegistryStep(kmem_caches, seed.kcs + 1, lock, t,
                                [thread[t] EXCEPT !.pc = "create_lock",
                                                  !.op = ToString(nr_calls + 1),
                                                  !.size = obj_size])
             \/ \E m \in {x \in thread[t].mine : x[1] = "cache"} :
                   RegistryStep(kmem_caches, seed.kcs, lock, t,
                                [thread[t] EXCEPT !.pc = "destroy_lock", !.op = m[2],
                                                  !.size = m[3], !.mine = @ \ {m}])
    /\ nr_calls' = nr_calls + 1

\* __kmem_cache_create with kmem_caches_lock.
CreateBody ==
    /\ panicked = ""
    /\ \E t \in Threads :
          /\ thread[t].pc = "create_body"
          /\ RegistryStep(Registered(kmem_caches,
                                     __kmem_cache_create(thread[t].op, thread[t].size, 8, FALSE)),
                          seed.kcs, spin_unlock_irqsave(lock, "kmem_caches"), t,
                          Returned(t, {<<"cache", thread[t].op, thread[t].size>>}))
    /\ UNCHANGED nr_calls

\* kmem_cache_destroy with kmem_caches_lock, and its kmem_cache_free.
DestroyBody ==
    /\ panicked = ""
    /\ \E t \in Threads :
          /\ thread[t].pc = "destroy_body"
          /\ RegistryStep(SLIST_REMOVE(kmem_caches, thread[t].op), seed.kcs - 1,
                          spin_unlock_irqsave(lock, "kmem_caches"), t, Returned(t, {}))
    /\ UNCHANGED nr_calls

RegistryNext ==
    \/ RegistryEnter
    \/ Acquire
    \/ CreateBody
    \/ DestroyBody

RegistrySpec == Init /\ [][RegistryNext]_vars

(***************************************************************************)
(* __find_sufficient on its own.  The arguments are machine words from     *)
(* both ends and the middle of the range; align is not 0, which            *)
(* arena_xalloc never passes on (it panics unless IS_PWR2(align)).         *)
(***************************************************************************)
\* Words next to 0, to WORD / 2 and to WORD - 1.
EdgeWords ==
    (0..3) \cup ((WORD \div 2 - 1)..(WORD \div 2 + 1)) \cup ((WORD - 3)..(WORD - 1))
FindSizes == {1, 2, 3, WORD \div 2, WORD - 2, WORD - 1}
FindAligns == {1, 2, 3, 4, WORD \div 2}
FindPhases == {0, 1, 2, WORD \div 2, WORD - 2, WORD - 1}
FindNocross == {0, 2, 3, 4, WORD \div 2, WORD - 1}

FindInit ==
    /\ \E bt_start \in EdgeWords, bt_size \in EdgeWords, size \in FindSizes,
          align \in FindAligns, phase \in FindPhases, nocross \in FindNocross :
          last = [op |-> "boot",
                  args |-> [bt_start |-> bt_start, bt_size |-> bt_size, size |-> size,
                            align |-> align, phase |-> phase, nocross |-> nocross],
                  ret |-> NULL, ff |-> <<>>, af |-> <<>>]
    /\ arena = NoArena
    /\ tags = <<>>
    /\ source_free = {}
    /\ base_pages = 0
    /\ btag_pages = {}
    /\ regions = {}
    /\ cache = NoCache
    /\ slabs = <<>>
    /\ pages_left = 0
    /\ seed = [hdrs |-> 0, bufctls |-> 0, kcs |-> 0]
    /\ held = {}
    /\ slab_last = [op |-> "boot", ret |-> NoObject, log |-> <<>>]
    /\ kmem_caches = kmem_cache_init
    /\ lock = Unlocked
    /\ thread = [t \in Threads |-> Idle]
    /\ futex = NoFutex
    /\ panicked = ""
    /\ nr_calls = 0

\* One call of __find_sufficient with the arguments of the state.
FindSufficient ==
    /\ last.op = "boot"
    /\ last' = [last EXCEPT
                  !.op = "__find_sufficient",
                  !.ret = __find_sufficient(last.args.bt_start, last.args.bt_size,
                                            last.args.size, last.args.align,
                                            last.args.phase, last.args.nocross)]
    /\ nr_calls' = nr_calls + 1
    /\ UNCHANGED <<arena, tags, source_free, base_pages, btag_pages, regions,
                   slab_vars, lock_vars, panicked>>

FindNext == FindSufficient

FindSpec == FindInit /\ [][FindNext]_vars

(***************************************************************************)
(* futex under several uthreads.  A call of futex goes through futex_init, *)
(* which tests and sets its flag and sets up __futex without any lock, one *)
(* statement a step, and then through futex_wait or futex_wake, whose      *)
(* critical sections are steps with __futex.lock: futex_wait tests *uaddr  *)
(* and takes its element in one step and, from uthread_yield, enqueues     *)
(* itself and unlocks in the next (__futex_block); futex_wake walks the    *)
(* queue in one step.  What *uaddr holds when it is read is an input.  A   *)
(* thread that blocked makes no call until a futex_wake makes it runnable. *)
(***************************************************************************)
MaxFutexCalls == 3
\* One uthread more than the threads of the allocators: two can wait while
\* one wakes.
FutexThreads == 1..(NrThreads + 1)
FutexAddrs == {1, 2}
\* val of the call: what futex_wait compares with *uaddr, and the count of
\* futex_wake.
FutexVals == 0..2
\* What *uaddr holds.
FutexWords == 0..1
FutexOps == {"FUTEX_WAIT", "FUTEX_WAKE", "FUTEX_FD"}

\* The walk of futex_wake from the element at i: an element whose uaddr is
\* the one of the call is taken off the queue and its thread made runnable,
\* while count is above 0.
RECURSIVE futex_wake_from(_, _, _, _, _)
futex_wake_from(queue, i, uaddr, count, woken) ==
    IF i > Len(queue) \/ ~(count > 0) THEN [queue |-> queue, woken |-> woken]
    ELSE IF queue[i].uaddr = uaddr
    THEN futex_wake_from(SubSeq(queue, 1, i - 1) \o SubSeq(queue, i + 1, Len(queue)),
                         i, uaddr, count - 1, Append(woken, queue[i].pthread))
    ELSE futex_wake_from(queue, i + 1, uaddr, count, woken)

\* A walk that does not count.
futex_wake_all(queue, uaddr, count) ==
    futex_wake_from(queue, 1, uaddr, Len(queue) + 1, <<>>)

\* The queue that futex_wake leaves and the threads it makes runnable.
futex_wake(queue, uaddr, count) ==
    futex_wake_from(queue, 1, uaddr, count, <<>>)

\* The state after a step of thread t in futex.
FutexStep(fx, lk, t, th, panic) ==
    /\ futex' = fx
    /\ lock' = lk
    /\ thread' = [thread EXCEPT ![t] = th]
    /\ panicked' = panic
    /\ UNCHANGED <<arena_vars, slab_vars>>

\* Where futex goes after futex_init: to the lock of futex_wait or
\* futex_wake, or back to the caller with ENOSYS.
Dispatch(t) ==
    CASE thread[t].op = "FUTEX_WAIT" -> [thread[t] EXCEPT !.pc = "wait_lock"]
      [] thread[t].op = "FUTEX_WAKE" -> [thread[t] EXCEPT !.pc = "wake_lock"]
      [] OTHER -> Idle

\* A thread calls futex(uaddr, op, val, NULL, NULL, 0).
FutexCall ==
    /\ panicked = "" /\ nr_calls < MaxFutexCalls
    /\ \E t \in DOMAIN thread, uaddr \in FutexAddrs, op \in FutexOps, val \in FutexVals :
          /\ thread[t].pc = "idle"
          /\ FutexStep(futex, lock, t,
                       [thread[t] EXCEPT !.pc = "futex_init", !.op = op, !.addr = uaddr,
                                         !.size = val],
                       panicked)
    /\ nr_calls' = nr_calls + 1

\* if(initialized) return;
FutexInitialized ==
    /\ panicked = ""
    /\ \E t \in DOMAIN thread :
          /\ thread[t].pc = "futex_init" /\ futex.initialized
          /\ FutexStep(futex, lock, t, Dispatch(t), panicked)
    /\ UNCHANGED nr_calls

\* The test of futex_init finds the flag false.
FutexInitStart ==
    /\ panicked = ""
    /\ \E t \in DOMAIN thread :
          /\ thread[t].pc = "futex_init" /\ ~futex.initialized
          /\ FutexStep(futex, lock, t, [thread[t] EXCEPT !.pc = "init_set"], panicked)
    /\ UNCHANGED nr_calls

\* initialized = true; the body follows.
FutexInitSet ==
    /\ panicked = ""
    /\ \E t \in DOMAIN thread :
          /\ thread[t].pc = "init_set"
          /\ FutexStep([futex EXCEPT !.initialized = TRUE, !.bodies = @ + 1], lock, t,
                       [thread[t] EXCEPT !.pc = "init_lock"], panicked)
    /\ UNCHANGED nr_calls

\* mcs_pdr_init(&__futex.lock): the lock is free, whoever had it.
FutexInitLock ==
    /\ panicked = ""
    /\ \E t \in DOMAIN thread :
          /\ thread[t].pc = "init_lock"
          /\ FutexStep([futex EXCEPT !.lock_ready = TRUE],
                       spin_unlock_irqsave(lock, "futex"), t,
                       [thread[t] EXCEPT !.pc = "init_queue"], panicked)
    /\ UNCHANGED nr_calls

\* TAILQ_INIT(&__futex.queue): the queue is empty, whoever was on it.
FutexInitQueue ==
    /\ panicked = ""
    /\ \E t \in DOMAIN thread :
          /\ thread[t].pc = "init_queue"
          /\ FutexStep([futex EXCEPT !.queue_ready = TRUE, !.queue = <<>>], lock, t,
                       [thread[t] EXCEPT !.pc = "init_cache"], panicked)
    /\ UNCHANGED nr_calls

\* __futex.element_cache = kmem_cache_create(...), and on to the operation.
FutexInitCache ==
    /\ panicked = ""
    /\ \E t \in DOMAIN thread :
          /\ thread[t].pc = "init_cache"
          /\ FutexStep([futex EXCEPT !.element_cache = futex.bodies], lock, t,
                       Dispatch(t), panicked)
    /\ UNCHANGED nr_calls

\* futex_wait with the lock: *uaddr is not val, and the thread unlocks and
\* returns; or it is, and the thread takes an element from the cache (a
\* kmem_cache_alloc of no cache goes through a null pointer) and yields.
FutexWaitTest ==
    /\ panicked = ""
    /\ \E t \in DOMAIN thread, word \in FutexWords :
          /\ thread[t].pc = "wait_body"
          /\ IF word # thread[t].size
             THEN FutexStep(futex, spin_unlock_irqsave(lock, "futex"), t, Returned(t, {}),
                            panicked)
             ELSE IF futex.element_cache = 0
             THEN FutexStep([futex EXCEPT !.early = TRUE], lock, t, thread[t],
                            "kmem_cache_alloc of a null cache")
             ELSE FutexStep(futex, lock, t, [thread[t] EXCEPT !.pc = "futex_block"],
                            panicked)
    /\ UNCHANGED nr_calls

\* __futex_block, from the uthread_yield of futex_wait: the thread is on the
\* tail of the queue and blocked, and the lock is free.  TAILQ_INSERT_TAIL
\* on a head that TAILQ_INIT never saw writes through a null tqh_last.
__futex_block ==
    /\ panicked = ""
    /\ \E t \in DOMAIN thread :
          /\ thread[t].pc = "futex_block"
          /\ IF ~futex.queue_ready
             THEN FutexStep([futex EXCEPT !.early = TRUE], lock, t, thread[t],
                            "TAILQ_INSERT_TAIL on a null queue")
             ELSE FutexStep([futex EXCEPT
                               !.queue = Append(@, [pthread |-> t,
                                                    uaddr |-> thread[t].addr])],
                            spin_unlock_irqsave(lock, "futex"), t,
                            [thread[t] EXCEPT !.pc = "blocked"], panicked)
    /\ UNCHANGED nr_calls

\* futex_wake with the lock: the walk, uthread_runnable of the threads it
\* took off the queue, which return from their futex_wait, and the unlock.
FutexWake ==
    /\ panicked = ""
    /\ \E t \in DOMAIN thread :
          /\ thread[t].pc = "wake_body"
          /\ \E r \in {futex_wake(futex.queue, thread[t].addr, thread[t].size)} :
                /\ futex' = [futex EXCEPT
                               !.queue = r.queue,
                               !.early = @ \/ ~futex.queue_ready,
                               !.wake = [uaddr |-> thread[t].addr, count |-> thread[t].size,
                                         before |-> futex.queue, woken |-> r.woken]]
                /\ thread' = [u \in DOMAIN thread |->
                                IF u = t \/ \E k \in 1..Len(r.woken) : r.woken[k] = u
                                THEN Returned(u, {}) ELSE thread[u]]
          /\ lock' = spin_unlock_irqsave(lock, "futex")
    /\ UNCHANGED <<arena_vars, slab_vars, panicked, nr_calls>>

\* __futex as one whole run of futex_init leaves it.
futex_init ==
    [NoFutex EXCEPT !.initialized = TRUE, !.lock_ready = TRUE, !.queue_ready = TRUE,
                    !.element_cache = 1, !.bodies = 1]

FutexStart(fx, uthreads) ==
    /\ arena = NoArena
    /\ tags = <<>>
    /\ source_free = {}
    /\ base_pages = 0
    /\ btag_pages = {}
    /\ regions = {}
    /\ last = [op |-> "boot", args |-> NoArgs, ret |-> NULL, ff |-> <<>>, af |-> <<>>]
    /\ cache = NoCache
    /\ slabs = <<>>
    /\ pages_left = 0
    /\ seed = [hdrs |-> 0, bufctls |-> 0, kcs |-> 0]
    /\ held = {}
    /\ slab_last = [op |-> "boot", ret |-> NoObject, log |-> <<>>]
    /\ kmem_caches = kmem_cache_init
    /\ lock = Unlocked
    /\ thread = [t \in uthreads |-> Idle]
    /\ futex = fx
    /\ panicked = ""
    /\ nr_calls = 0

\* The threads call futex after a first call has returned.
FutexInit == FutexStart(futex_init, FutexThreads)

FutexNext ==
    \/ FutexCall
    \/ FutexInitialized
    \/ Acquire
    \/ FutexWaitTest
    \/ __futex_block
    \/ FutexWake

FutexSpec == FutexInit /\ [][FutexNext]_vars

\* The threads make the first calls of futex.
FirstCallInit == FutexStart(NoFutex, Threads)

FirstCallNext ==
    \/ FutexCall
    \/ FutexInitialized
    \/ FutexInitStart
    \/ FutexInitSet
    \/ FutexInitLock
    \/ FutexInitQueue
    \/ FutexInitCache
    \/ Acquire
    \/ FutexWaitTest
    \/ __futex_block
    \/ FutexWake

FirstCallSpec == FirstCallInit /\ [][FirstCallNext]_vars

(***************************************************************************)
(* What the states are checked against.                                    *)
(***************************************************************************)
\* The kernel runs and has an arena.
Alive == panicked = "" /\ Exists(arena)

\* The tags of all_segs that are not spans, in order.
Segments == SelectSeq(arena.all_segs, LAMBDA bt : tags[bt].status # "SPAN")
Extent(bt) == Range(tags[bt].start, tags[bt].size)

\* The addresses of the regions the arena was given.
Resource == UNION {Range(r[1], r[2]) : r \in regions}

\* The allocated tags that free_from_arena can find.
Outstanding ==
    UNION {{l.seq[k] : k \in {n \in 1..Len(l.seq) : tags[l.seq[n]].status = "ALLOC"}} :
              l \in {BSD_LIST(World, LocHash(i)) :
                        i \in {j \in DOMAIN arena.alloc_hash : arena.alloc_hash[j] # NULL}}}

\* The tags of all_segs from position i on, up to the next span.
RECURSIVE Spanned(_)
Spanned(i) ==
    IF i > Len(arena.all_segs) \/ tags[arena.all_segs[i]].status = "SPAN" THEN {}
    ELSE {arena.all_segs[i]} \cup Spanned(i + 1)

\* C1: while the kernel runs, the tags of all_segs that are not spans are
\* FREE or ALLOC, no two of them overlap, every address of a region the arena
\* was given is in exactly one of them, every span is exactly the tags that
\* follow it up to the next span, and no two allocations that can be freed
\* overlap.
C1_Tiling ==
    Alive =>
        /\ \A i \in 1..Len(Segments) : tags[Segments[i]].status \in {"FREE", "ALLOC"}
        /\ \A i, j \in 1..Len(Segments) :
              i < j => Extent(Segments[i]) \cap Extent(Segments[j]) = {}
        /\ \A a \in Resource :
              Cardinality({i \in 1..Len(Segments) : a \in Extent(Segments[i])}) = 1
        /\ \A i \in 1..Len(arena.all_segs) :
              tags[arena.all_segs[i]].status = "SPAN" =>
                  /\ Extent(arena.all_segs[i]) = UNION {Extent(bt) : bt \in Spanned(i + 1)}
                  /\ Extent(arena.all_segs[i]) # {}
        /\ \A b1, b2 \in Outstanding :
              b1 # b2 => Extent(b1) \cap Extent(b2) = {}

\* C2: every non-null address p that arena_xalloc returns has p mod align =
\* phase, minaddr <= p, p + size <= maxaddr when maxaddr is set, and p and
\* p + size - 1 in the same nocross block when nocross is set.
C2_XallocConstraints ==
    (last.op = "arena_xalloc" /\ last.ret # NULL) =>
        /\ last.ret % last.args.align = last.args.phase
        /\ last.args.minaddr <= last.ret
        /\ last.args.maxaddr # 0 => last.ret + last.args.size <= last.args.maxaddr
        /\ last.args.nocross # 0 =>
              last.ret \div last.args.nocross
                  = (last.ret + last.args.size - 1) \div last.args.nocross

\* What a round trip is to restore: the segments of all_segs, the members of
\* each free list and of each hash chain, and the counters.
Members(w, first) ==
    IF first = NULL THEN {}
    ELSE {<<w.t[bt].start, w.t[bt].size>> :
             bt \in The({{l.seq[k] : k \in 1..Len(l.seq)} : l \in {ListFrom(w, first, {})}})}
Snapshot(w) ==
    [segs |-> {<<w.t[w.a.all_segs[i]].start, w.t[w.a.all_segs[i]].size,
                 w.t[w.a.all_segs[i]].status>> : i \in 1..Len(w.a.all_segs)},
     free |-> [i \in DOMAIN w.a.free_segs |-> Members(w, w.a.free_segs[i])],
     hash |-> [i \in DOMAIN w.a.alloc_hash |-> Members(w, w.a.alloc_hash[i])],
     amt_total_segs |-> w.a.amt_total_segs,
     amt_alloc_segs |-> w.a.amt_alloc_segs,
     nr_allocs |-> w.a.nr_allocs]

\* p = arena_alloc(n, flags) from w, and when it succeeds arena_free(p, n).
RoundTrip(w, n, flags) ==
    \A r \in {arena_alloc(w, n, flags)} :
        (~Stopped(r.w) /\ r.ret # NULL) =>
            \A f \in {arena_free(r.w, r.ret, n)} :
                ~Stopped(f) /\ Snapshot(f) = Snapshot(w)

\* C3: from every state, an arena_alloc that succeeds and the arena_free of
\* what it returned, with nothing in between, restore the segments, the free
\* lists, the hash chains and the counters.
C3_RoundTrip ==
    Alive =>
        \A junk \in Junks, in \in AllocInputs :
            \A how \in Hows("alloc", in[2], junk) : RoundTrip(WorldOf(how), in[1], in[2])

\* The position in all_segs of the span that holds the tag at position i (0
\* when there is none), and the tags of that span.
SpanAt(i) ==
    The({IF before = {} THEN 0 ELSE SetMax(before) :
            before \in {{j \in 1..i : tags[arena.all_segs[j]].status = "SPAN"}}})
HeldAt == {i \in 1..Len(arena.all_segs) : arena.all_segs[i] \in Held}

\* The arena_free of the allocated tag at position i of all_segs, which lies
\* in the span at position s: when the rest of the span is free, ffunc is
\* called once, with the span, and the span and its tags leave all_segs;
\* when it is not, ffunc is not called.
ReturnsSpan(w, i, s) ==
    \A f \in {arena_free(w, tags[arena.all_segs[i]].start, tags[arena.all_segs[i]].size)} :
        IF \A bt \in Spanned(s + 1) \ {arena.all_segs[i]} : tags[bt].status = "FREE"
        THEN /\ ~Stopped(f)
             /\ f.ff = <<<<tags[arena.all_segs[s]].start, tags[arena.all_segs[s]].size>>>>
             /\ \A k \in 1..Len(f.a.all_segs) :
                   /\ f.a.all_segs[k] # arena.all_segs[s]
                   /\ f.t[f.a.all_segs[k]].start \notin Extent(arena.all_segs[s])
        ELSE f.ff = <<>>

\* C4: in an arena with a source, the arena_free that leaves a whole span
\* free calls ffunc exactly once, with the start and the size of that span,
\* and leaves neither the span nor a tag inside it in all_segs; an arena_free
\* that leaves a part of the span allocated calls no ffunc.
C4_CoalesceCompleteness ==
    (Alive /\ arena.source) =>
        \A junk \in Junks, i \in HeldAt :
            \A how \in Hows("free", {}, junk) :
                SpanAt(i) # 0 /\ ReturnsSpan(WorldOf(how), i, SpanAt(i))

\* The kernel stopped in a loop that does not end, and not in a panic.
Hung == panicked \in {"hang: cyclic free list", "hang: cyclic hash chain"}
Panicked == panicked # "" /\ ~Hung

\* C5: an arena_alloc or arena_xalloc without MEM_ATOMIC returns an address
\* that is not null, or panics.
C5_NullOnlyAtomic ==
    (last.op \in {"arena_alloc", "arena_xalloc"} /\ "MEM_ATOMIC" \notin last.args.flags) =>
        (last.ret # NULL \/ Panicked)

\* The tags of the arena that are allocated.
AllocTags ==
    {bt \in 1..Len(tags) :
        tags[bt].status = "ALLOC" /\ (InSeq(arena.all_segs, bt) \/ bt \in Outstanding)}

\* No allocated tag starts at addr with the size that size rounds to.
BadFree(addr, size) ==
    \A bt \in AllocTags :
        tags[bt].start = addr => tags[bt].size # ROUNDUP(size, arena.quantum)

\* The free that left f panicked, marked no segment FREE and left the
\* counters of the allocations alone.
Refused(f) ==
    /\ f.panic # "" /\ f.panic \notin {"hang: cyclic free list", "hang: cyclic hash chain"}
    /\ f.a.amt_alloc_segs = arena.amt_alloc_segs
    /\ f.a.nr_allocs = arena.nr_allocs
    /\ \A bt \in 1..Len(tags) : f.t[bt].status = "FREE" => tags[bt].status = "FREE"

\* C6: an arena_free or arena_xfree of an address at which no allocated tag
\* starts, or with a size that does not round to the size of that tag,
\* panics, marks no segment FREE and changes neither amt_alloc_segs nor
\* nr_allocs.
C6_BadFreePanics ==
    Alive =>
        \A junk \in Junks, addr \in Addrs, size \in Sizes \ {0} :
            BadFree(addr, size) =>
                \A how \in Hows("free", {}, junk) :
                    /\ Refused(arena_free(WorldOf(how), addr, size))
                    /\ Refused(arena_xfree(WorldOf(how), addr, size))

\* An arena_free with a wrong size panicked.
C6_Witness ==
    /\ last.op = "arena_free"
    /\ panicked = "Free with wrong size"
    /\ \E bt \in AllocTags : tags[bt].start = last.args.addr

\* The spans of all_segs, as <<start, size>>.
Spans(w) ==
    {<<w.t[w.a.all_segs[i]].start, w.t[w.a.all_segs[i]].size>> :
        i \in {j \in 1..Len(w.a.all_segs) : w.t[w.a.all_segs[j]].status = "SPAN"}}

\* The call that left w panicked and changed neither the arena nor a tag.
PanickedUnchanged(w) == w.panic # "" /\ w.a = arena /\ w.t = tags /\ w.got = regions

\* C7: arena_add on an arena with a source panics and changes nothing;
\* arena_create with a source and a base panics and creates nothing; every
\* region of an arena with a source is a span of all_segs, and all_segs of an
\* arena without a source has no span.
C7_NoManualAddWithSource ==
    /\ (Alive /\ arena.source) =>
          \A r \in {<<0, 4>>, <<0, 2>>, <<2, 2>>, <<1, 1>>}, flags \in MemFlags :
              PanickedUnchanged(arena_add(World, r[1], r[2], flags).w)
    /\ (panicked = "" /\ ~Exists(arena)) =>
          \A quantum \in {1, 2}, flags \in MemFlags, pages \in 0..MaxBasePages :
              PanickedUnchanged(arena_create([World EXCEPT !.src = SourceRange,
                                                           !.pages = pages],
                                             "created", 2, 2, quantum, TRUE, flags))
    /\ Alive => IF arena.source THEN regions \subseteq Spans(World) ELSE Spans(World) = {}

\* An arena_add on an arena with a source panicked.
C7_Witness ==
    /\ last.op = "arena_add"
    /\ arena.source
    /\ regions # {}
    /\ panicked = "Arenas with sources must not manually add resources."

\* C8: arena_xalloc with a nocross, a minaddr or a maxaddr on an arena with a
\* source fails: it calls no afunc, takes nothing from the source and adds no
\* span.
C8_NoConstrainedImport ==
    (Alive /\ arena.source) =>
        \A junk \in Junks, in \in (Nocross \X AllocFlags) \cup (MinMax \X AllocFlags) :
            \A how \in Hows("alloc", in[2], junk) :
                \A r \in {arena_xalloc(WorldOf(how), in[1][1], in[1][2], in[1][3], in[1][4],
                                       in[1][5], in[1][6], in[2])} :
                    /\ r.ret = NULL /\ r.w.panic # ""
                    /\ r.w.af = <<>>
                    /\ r.w.src = source_free
                    /\ Spans(r.w) = Spans(World)


\* An arena_xalloc with a nocross on an arena with a source, which had nothing
\* free, failed.
C8_Witness ==
    /\ last.op = "arena_xalloc"
    /\ arena.source
    /\ last.args.nocross # 0
    /\ last.af = <<>>
    /\ \A i \in DOMAIN arena.free_segs : arena.free_segs[i] = NULL
    /\ panicked = "has source, can't xalloc with nocross, minaddr, or maxaddr"
(***************************************************************************)
(* The slab cache.                                                         *)
(***************************************************************************)
OnList(list, sl) == IF InSeq(list, sl) THEN 1 ELSE 0

\* C9: after any sequence of kmem_cache_alloc and kmem_cache_free on a cache,
\* every live slab with at least one object is on exactly one of the three
\* lists of the cache: on the empty list iff none of its objects is busy, on
\* the full list iff all of them are, and on the partial list iff some but
\* not all of them are.
C9_SlabListInvariant ==
    (CacheExists /\ panicked = "") =>
        \A sl \in 1..Len(slabs) :
            (slabs[sl].live /\ slabs[sl].num_total_obj >= 1) =>
                /\ OnList(cache.empty_slab_list, sl) + OnList(cache.partial_slab_list, sl)
                       + OnList(cache.full_slab_list, sl) = 1
                /\ InSeq(cache.empty_slab_list, sl) <=> slabs[sl].num_busy_obj = 0
                /\ InSeq(cache.full_slab_list, sl)
                       <=> slabs[sl].num_busy_obj = slabs[sl].num_total_obj
                /\ InSeq(cache.partial_slab_list, sl)
                       <=> /\ 0 < slabs[sl].num_busy_obj
                           /\ slabs[sl].num_busy_obj < slabs[sl].num_total_obj

\* The world after kmem_cache_reap, ready for the next call.
Reaped(intact) == [kmem_cache_reap(SlabWorld(intact)) EXCEPT !.log = <<>>]

\* C10: when the cache has a slab on its empty list, a second kmem_cache_reap
\* right after the first destroys no slab, releases no page and leaves the
\* cache as the first reap left it.
C10_ReapIdempotent ==
    (CacheExists /\ panicked = "" /\ cache.empty_slab_list # <<>>) =>
        \A first \in Intacts, second \in BOOLEAN :
            ~SlabStopped(Reaped(first)) =>
                \E r \in {kmem_cache_reap([Reaped(first) EXCEPT !.intact = second])} :
                    /\ r.log = <<>>
                    /\ r.pages = Reaped(first).pages
                    /\ r.panic = ""
                    /\ [r EXCEPT !.intact = first] = Reaped(first)

\* The slabs of the empty list, each once and none destroyed before.
EachOnce(log) ==
    /\ Len(log) = Len(cache.empty_slab_list)
    /\ \A sl \in 1..Len(slabs) :
          InSeq(cache.empty_slab_list, sl) =>
              /\ slabs[sl].live
              /\ Cardinality({i \in 1..Len(log) : log[i] = sl}) = 1

\* C11: kmem_cache_destroy of a cache with a slab on its full or its partial
\* list fails its assertion; of a cache with empty slabs only, it destroys
\* each of them exactly once, and afterwards kmem_caches holds every cache it
\* held but this one.
C11_DestroyCache ==
    (CacheExists /\ panicked = "") =>
        \A intact \in Intacts :
            \E d \in {kmem_cache_destroy(SlabWorld(intact))} :
                IF cache.full_slab_list # <<>> \/ cache.partial_slab_list # <<>>
                THEN d.panic \in {"assert TAILQ_EMPTY(&cp->full_slab_list)",
                                  "assert TAILQ_EMPTY(&cp->partial_slab_list)"}
                ELSE /\ d.panic = ""
                     /\ EachOnce(d.log)
                     /\ \A i \in 1..Len(d.reg) : d.reg[i].name # cache.name
                     /\ \A i \in 1..Len(kmem_caches) :
                           kmem_caches[i].name # cache.name => InSeq(d.reg, kmem_caches[i])

\* The addresses at which the arena can place size bytes: the starts of the
\* FREE segments of all_segs that are large enough.
Suitable(size) ==
    {tags[arena.all_segs[i]].start :
        i \in {j \in 1..Len(arena.all_segs) :
                  /\ tags[arena.all_segs[j]].status = "FREE"
                  /\ tags[arena.all_segs[j]].size >= size}}

\* Where the next-fit search stands, and where it is to find size bytes.
Cursor(how) ==
    IF arena.last_nextfit_alloc = Uninitialized THEN how.garbage
    ELSE arena.last_nextfit_alloc
NextFit(how, size) ==
    IF \E p \in Suitable(size) : p > Cursor(how)
    THEN SetMin({p \in Suitable(size) : p > Cursor(how)})
    ELSE SetMin(Suitable(size))

\* The arena has one segment, [0, 4 * quantum), all of it free and never
\* allocated from.
OneSegmentAtZero ==
    /\ Alive /\ ~arena.source /\ ~arena.is_base
    /\ Len(arena.all_segs) = 1
    /\ tags[arena.all_segs[1]].status = "FREE"
    /\ tags[arena.all_segs[1]].start = 0
    /\ tags[arena.all_segs[1]].size = 4 * arena.quantum
    /\ arena.last_nextfit_alloc = Uninitialized
    /\ __has_enough_btags(World, 2)

\* Two next-fit allocations of a quantum, the first is freed, and a third
\* allocation is made.
NextFitThrice(how) ==
    The({The({The({<<a1, a2, arena_alloc(f, arena.quantum, {"ARENA_NEXTFIT"})>> :
                      f \in {arena_free(a2.w, 0, arena.quantum)}}) :
                 a2 \in {arena_alloc(a1.w, arena.quantum, {"ARENA_NEXTFIT"})}}) :
            a1 \in {arena_alloc(WorldOf(how), arena.quantum, {"ARENA_NEXTFIT"})}})

\* C12: on an arena without a source, a next-fit allocation for which a free
\* segment has room returns the lowest such address above
\* last_nextfit_alloc, or else the lowest such address, and sets
\* last_nextfit_alloc to it; on a fresh arena whose only segment is
\* [0, 4 * quantum), two next-fit allocations of a quantum return 0 and
\* quantum, and after 0 is freed the third returns 2 * quantum.
C12_NextFit ==
    /\ (Alive /\ ~arena.source /\ __has_enough_btags(World, 2)) =>
          \A size \in {arena.quantum, 2 * arena.quantum} :
             \A how \in Hows("alloc", {"ARENA_NEXTFIT"}, FALSE) :
                Suitable(size) # {} =>
                   \A r \in {arena_alloc(WorldOf(how), size, {"ARENA_NEXTFIT"})} :
                      /\ ~Stopped(r.w)
                      /\ r.ret = NextFit(how, size)
                      /\ r.w.a.last_nextfit_alloc = NextFit(how, size)
    /\ OneSegmentAtZero =>
          \A how \in Hows("alloc", {"ARENA_NEXTFIT"}, FALSE) :
             \A s \in {NextFitThrice(how)} :
                /\ ~Stopped(s[3].w)
                /\ s[1].ret = 0 /\ s[1].w.a.nr_allocs = 1
                /\ s[2].ret = arena.quantum
                /\ s[3].ret = 2 * arena.quantum

\* The FREE segments of all_segs.
FreeSegs == {bt \in {arena.all_segs[i] : i \in 1..Len(arena.all_segs)} : tags[bt].status = "FREE"}

\* Requests that must not cross a boundary: <<size, align, nocross>>.
Boundaries == {<<1, 1, 2>>, <<2, 1, 2>>, <<2, 2, 4>>}

\* C13: on an arena without a source whose one free segment starts at a
\* multiple of nocross (address 0 included) and has room for the request,
\* arena_xalloc with that nocross succeeds and returns the start of the
\* segment; from the one segment [0, 4) of an arena of quantum 1, a request
\* for 1 with nocross 2 returns 0 or 2.
C13_NocrossPlacement ==
    (Alive /\ ~arena.source /\ ~arena.is_base /\ arena.quantum = 1
        /\ __has_enough_btags(World, 2) /\ Cardinality(FreeSegs) = 1) =>
       \A bt \in FreeSegs, c \in Boundaries :
          (tags[bt].start % c[3] = 0 /\ tags[bt].size >= c[1]) =>
             \A r \in {arena_xalloc(WorldOf(The(Hows("alloc", {}, FALSE))),
                                    c[1], c[2], 0, c[3], 0, 0, {"ARENA_BESTFIT"})} :
                /\ ~Stopped(r.w)
                /\ r.w.a.nr_allocs = arena.nr_allocs + 1
                /\ r.ret = tags[bt].start
                /\ (tags[bt].start = 0 /\ tags[bt].size = 4 /\ c = <<1, 1, 2>>) =>
                      r.ret \in {0, 2}

\* The segments of all_segs of w: <<status, start, size>>.
SegsOf(w) ==
    {<<w.t[w.a.all_segs[i]].status, w.t[w.a.all_segs[i]].start, w.t[w.a.all_segs[i]].size>> :
        i \in 1..Len(w.a.all_segs)}

\* The tag is on the free list of its size.
OnBucket(w, bt) == InSeq(BSD_LIST(w, LocFree(LOG2_DOWN(w.t[bt].size))).seq, bt)

\* What is to be left of the free segment [s, e) when size bytes are
\* allocated at try.
Split(s, e, try, size) ==
    {<<"ALLOC", try, size>>}
        \cup (IF try = s THEN {} ELSE {<<"FREE", s, try - s>>})
        \cup (IF try + size = e THEN {} ELSE {<<"FREE", try + size, e - (try + size)>>})

\* Requests with an alignment and a phase: <<size, align, phase>>, in quanta.
Placements == {<<1, 1, 0>>, <<1, 2, 1>>, <<2, 2, 0>>, <<1, 4, 1>>}

\* The free segment of all_segs that the call allocated from: its tag is the
\* one that holds the allocation afterwards.
Picked(r) ==
    {bt \in FreeSegs : r.w.t[bt].status = "ALLOC" /\ r.w.t[bt].start = r.ret}

\* C14: when arena_xalloc picks the free segment [s, e) and returns the
\* address try for size bytes, the segment is replaced in all_segs by FREE
\* [s, try) (none when try = s), ALLOC [try, try + size), and FREE
\* [try + size, e) (none when try + size = e), nothing else in all_segs
\* changes, and each free piece is on the free list of its size; try mod
\* align is phase.
C14_ThreeWaySplit ==
    (Alive /\ ~arena.source /\ ~arena.is_base) =>
       \A c \in Placements, style \in {{}, {"ARENA_BESTFIT"}} :
          \A r \in {arena_xalloc(WorldOf(The(Hows("alloc", style, FALSE))),
                                 c[1] * arena.quantum, c[2] * arena.quantum,
                                 c[3] * arena.quantum, 0, 0, 0, style)} :
             (r.ret # NULL /\ ~Stopped(r.w)) =>
                \A bt \in Picked(r) :
                   /\ r.ret % (c[2] * arena.quantum) = c[3] * arena.quantum
                   /\ tags[bt].start <= r.ret
                   /\ r.ret + c[1] * arena.quantum <= tags[bt].start + tags[bt].size
                   /\ SegsOf(r.w)
                         = (SegsOf(World) \ {<<"FREE", tags[bt].start, tags[bt].size>>})
                              \cup Split(tags[bt].start, tags[bt].start + tags[bt].size,
                                         r.ret, c[1] * arena.quantum)
                   /\ Len(r.w.a.all_segs)
                         = Len(arena.all_segs) - 1
                              + Cardinality(Split(tags[bt].start,
                                                  tags[bt].start + tags[bt].size,
                                                  r.ret, c[1] * arena.quantum))
                   /\ \A i \in 1..Len(r.w.a.all_segs) :
                         (/\ r.w.t[r.w.a.all_segs[i]].status = "FREE"
                          /\ r.w.t[r.w.a.all_segs[i]].start
                                \in {tags[bt].start, r.ret + c[1] * arena.quantum}) =>
                             OnBucket(r.w, r.w.a.all_segs[i])

\* An arena_xalloc has split a segment in three.
C14_Witness ==
    /\ Alive /\ ~arena.source /\ ~arena.is_base
    /\ last.op = "arena_xalloc" /\ last.ret # NULL
    /\ \E i \in 2..(Len(arena.all_segs) - 1) :
          /\ tags[arena.all_segs[i]].status = "ALLOC"
          /\ tags[arena.all_segs[i]].start = last.ret
          /\ tags[arena.all_segs[i]].size = last.args.size
          /\ tags[arena.all_segs[i - 1]].status = "FREE"
          /\ tags[arena.all_segs[i - 1]].start + tags[arena.all_segs[i - 1]].size = last.ret
          /\ tags[arena.all_segs[i + 1]].status = "FREE"
          /\ tags[arena.all_segs[i + 1]].start = last.ret + last.args.size

\* Some neighbours in all_segs are both FREE, the second starting where the
\* first ends.
AdjacentFree ==
    \E i \in 1..(Len(arena.all_segs) - 1) :
       /\ tags[arena.all_segs[i]].status = "FREE"
       /\ tags[arena.all_segs[i + 1]].status = "FREE"
       /\ tags[arena.all_segs[i]].start + tags[arena.all_segs[i]].size
             = tags[arena.all_segs[i + 1]].start

\* C15: while the kernel runs, no two neighbours in all_segs are both FREE
\* with the second starting where the first ends, whatever the calls were,
\* two arena_add of adjacent regions included.
C15_NoAdjacentFree == Alive => ~AdjacentFree

\* The sizes of the tags of all_segs, from position i on, whose status is one
\* of statuses, added up.
RECURSIVE SumSizes(_, _)
SumSizes(i, statuses) ==
    IF i > Len(arena.all_segs) THEN 0
    ELSE (IF tags[arena.all_segs[i]].status \in statuses
          THEN tags[arena.all_segs[i]].size ELSE 0) + SumSizes(i + 1, statuses)

\* C16: while the kernel runs, amt_total_segs is the sum of the sizes of the
\* FREE and ALLOC tags of all_segs, amt_alloc_segs the sum of the sizes of
\* its ALLOC tags, nr_allocs the number of its ALLOC tags, and arena_amt_free
\* returns the sum of the sizes of its FREE tags.
C16_Counters ==
    Alive =>
       /\ arena.amt_total_segs = SumSizes(1, {"FREE", "ALLOC"})
       /\ arena.amt_alloc_segs = SumSizes(1, {"ALLOC"})
       /\ arena.nr_allocs
             = Cardinality({i \in 1..Len(arena.all_segs) :
                               tags[arena.all_segs[i]].status = "ALLOC"})
       /\ arena_amt_free(World) = SumSizes(1, {"FREE"})

\* The tags of free list i and of hash chain i, and whether the list ends.
FreeList(i) == BSD_LIST(World, LocFree(i))
HashChain(i) == BSD_LIST(World, LocHash(i))
FreeListsOf(bt) ==
    {i \in {j \in DOMAIN arena.free_segs : arena.free_segs[j] # NULL} :
        InSeq(FreeList(i).seq, bt)}
HashChainsOf(bt) ==
    {i \in {j \in DOMAIN arena.alloc_hash : arena.alloc_hash[j] # NULL} :
        InSeq(HashChain(i).seq, bt)}

\* C17: while the kernel runs, every tag on free list i is FREE with a size
\* in [2^i, 2^(i+1)), every FREE tag of all_segs is on exactly one free list
\* and once, every tag on a hash chain is ALLOC, and the SPAN tags of
\* all_segs are on no free list and on no hash chain.
C17_ListMembership ==
    Alive =>
       /\ \A i \in {j \in DOMAIN arena.free_segs : arena.free_segs[j] # NULL} :
             /\ ~FreeList(i).cyclic
             /\ \A k \in 1..Len(FreeList(i).seq) :
                   /\ tags[FreeList(i).seq[k]].status = "FREE"
                   /\ tags[FreeList(i).seq[k]].size >= 2 ^ i
                   /\ tags[FreeList(i).seq[k]].size < 2 ^ (i + 1)
       /\ \A i \in {j \in DOMAIN arena.alloc_hash : arena.alloc_hash[j] # NULL} :
             /\ ~HashChain(i).cyclic
             /\ \A k \in 1..Len(HashChain(i).seq) :
                   tags[HashChain(i).seq[k]].status = "ALLOC"
       /\ \A n \in 1..Len(arena.all_segs) :
             /\ tags[arena.all_segs[n]].status = "FREE" =>
                   /\ Cardinality(FreeListsOf(arena.all_segs[n])) = 1
                   /\ \A i \in FreeListsOf(arena.all_segs[n]) :
                         Cardinality({k \in 1..Len(FreeList(i).seq) :
                                         FreeList(i).seq[k] = arena.all_segs[n]}) = 1
             /\ tags[arena.all_segs[n]].status = "SPAN" =>
                   /\ FreeListsOf(arena.all_segs[n]) = {}
                   /\ HashChainsOf(arena.all_segs[n]) = {}

\* C18: while the kernel runs, the tags of all_segs are in the order of their
\* starts, at most one SPAN and at most one other tag have a given start, and
\* the SPAN comes first; __split_bt_at keeps it so.
C18_TreeOrder ==
    Alive =>
       /\ \A i \in 1..(Len(arena.all_segs) - 1) :
             \/ tags[arena.all_segs[i]].start < tags[arena.all_segs[i + 1]].start
             \/ /\ tags[arena.all_segs[i]].start = tags[arena.all_segs[i + 1]].start
                /\ tags[arena.all_segs[i]].status = "SPAN"
                /\ tags[arena.all_segs[i + 1]].status # "SPAN"
       /\ \A i, j \in 1..Len(arena.all_segs) :
             (/\ i # j
              /\ tags[arena.all_segs[i]].start = tags[arena.all_segs[j]].start) =>
                 (tags[arena.all_segs[i]].status = "SPAN")
                    # (tags[arena.all_segs[j]].status = "SPAN")

\* The ALLOC tags of all_segs.
AllocSegs ==
    {bt \in {arena.all_segs[i] : i \in 1..Len(arena.all_segs)} : tags[bt].status = "ALLOC"}

\* C19: while the kernel runs, __untrack_alloc_seg finds every ALLOC tag of
\* all_segs by its start, on the chain hash_idx(start), however many tags
\* share the chain, and a lookup never returns a tag with another start.
C19_HashLookup ==
    Alive =>
       \A junk \in Junks : \A how \in Hows("free", {}, junk) :
          /\ \A bt \in AllocSegs :
                /\ InSeq(HashChain(hash_idx(tags[bt].start)).seq, bt)
                /\ __untrack_alloc_seg(WorldOf(how), tags[bt].start).ret = bt
          /\ \A start \in {tags[bt].start : bt \in AllocSegs} \cup Addrs :
                \A r \in {__untrack_alloc_seg(WorldOf(how), start)} :
                   r.ret # NULL => tags[r.ret].start = start

\* C20: while the kernel runs, an arena with a source and no allocation has
\* every free list empty, nothing in all_segs, and amt_total_segs 0, so that
\* arena_destroy does not stop on its assertion of the free lists; and
\* arena_destroy of an arena with an allocation stops on its assertion of the
\* hash chains.
C20_DestroyAssertions ==
    Alive =>
       \A junk \in BOOLEAN :
          \A d \in {arena_destroy(WorldOf([pol |-> "low", rb |-> FALSE, garbage |-> 0,
                                           junk |-> junk]))} :
             /\ (arena.source /\ arena.nr_allocs = 0) =>
                   /\ \A i \in DOMAIN arena.free_segs : arena.free_segs[i] = NULL
                   /\ arena.all_segs = <<>>
                   /\ arena.amt_total_segs = 0
                   /\ d.panic # "assert BSD_LIST_EMPTY(&arena->free_segs[i])"
             /\ (arena.nr_allocs # 0 \/ AllocSegs # {}) =>
                   d.panic = "assert BSD_LIST_EMPTY(&arena->alloc_hash[i])"

\* The ALLOC tags of w that are on the hash chain of their start.
Hashed(w) ==
    {bt \in 1..Len(w.t) :
        /\ w.t[bt].status = "ALLOC"
        /\ InSeq(BSD_LIST(w, LocHash(hash_idx(w.t[bt].start))).seq, bt)}

\* The last call searched all_segs in address order.
SearchedInOrder ==
    /\ last.op \in {"arena_alloc", "arena_xalloc"}
    /\ \/ "ARENA_NEXTFIT" \in last.args.flags
       \/ last.args.minaddr # 0
       \/ last.args.maxaddr # 0

\* C21: a call that searches all_segs in address order (arena_xalloc with
\* minaddr or maxaddr, a NEXTFIT allocation) never stops on the assertion
\* bt->status == BTAG_FREE of __account_alloc, and a search between minaddr
\* and maxaddr that returns leaves every ALLOC tag on its hash chain.
C21_SearchTakesFree ==
    /\ SearchedInOrder => panicked # "assert bt->status == BTAG_FREE"
    /\ Alive =>
          \A c \in MinMax, junk \in Junks :
             \A how \in Hows("alloc", {}, junk) :
                \A r \in {arena_xalloc(WorldOf(how), c[1] * Unit, c[2] * Unit, c[3] * Unit,
                                       c[4] * Unit, c[5] * Unit, c[6] * Unit, {})} :
                   ~Stopped(r.w) => Hashed(World) \subseteq Hashed(r.w)

\* C22: an arena_alloc on an arena with a source (import_scale is 0) calls
\* afunc at most once: the retry after an import finds the span it added,
\* whatever the size and the style.
C22_ImportProgress ==
    (last.op = "arena_alloc" /\ arena.source /\ arena.import_scale = 0) =>
        Len(last.af) <= 1

\* C24: __get_btag never finds unused_btags empty: the tags that
\* __get_enough_btags saw stay on the list until the operation that asked
\* for them has taken them.
C24_TagsAvailable == panicked # "assert ret in __get_btag"

\* The addresses the arena can hand out: those of the FREE tags of all_segs
\* and of the tags on its free lists.
Allocatable ==
    UNION {Extent(bt) : bt \in {b \in 1..Len(tags) :
                                   /\ tags[b].status = "FREE"
                                   /\ \/ InSeq(arena.all_segs, b)
                                      \/ FreeListsOf(b) # {}}}

\* C25: while the kernel runs, no address is at the same time allocatable
\* from the arena and free in its source: a free that returns a span takes
\* the span's two tags out of all_segs and off the free lists before it
\* calls ffunc.
C25_SpanHandBack ==
    (Alive /\ arena.source) => Allocatable \cap source_free = {}

\* What an import may ask for: <<size, flags>>.
ImportInputs == (Sizes \ {0}) \X MemFlags

\* C26: when get_more_resources fails without a panic, the arena is as it
\* was: with a null from afunc nothing has changed, and with a span that
\* __arena_add could not register ffunc was called once, with the span's
\* address and the import size, so that the source is as it was too; and an
\* arena_alloc that handed a span back returns null.
C26_FailedImport ==
    (Alive /\ arena.source) =>
        \A in \in ImportInputs, pol \in {"low", "high"} :
           \A w \in {WorldOf([pol |-> pol, rb |-> FALSE, garbage |-> 0, junk |-> FALSE])} :
              /\ \A r \in {get_more_resources(w, in[1], in[2])} :
                    (~Stopped(r.w) /\ ~r.ret) =>
                       /\ r.w.a = arena /\ r.w.t = tags /\ r.w.src = source_free
                       /\ r.w.got = regions
                       /\ r.w.af = <<import_size(w, in[1])>>
                       /\ \/ r.w.ff = <<>> /\ afunc(w, import_size(w, in[1]), in[2]).ret = NULL
                          \/ r.w.ff = <<<<afunc(w, import_size(w, in[1]), in[2]).ret,
                                          import_size(w, in[1])>>>>
              /\ \A a \in {arena_alloc(w, in[1], in[2])} :
                    (~Stopped(a.w) /\ a.w.ff # <<>>) => (a.ret = NULL /\ Len(a.w.ff) = 1)

\* An arena_alloc imported a span, found no tags for it under MEM_ATOMIC,
\* handed it back and returned null.
C26_Witness ==
    /\ Alive /\ last.op = "arena_alloc" /\ last.ret = NULL
    /\ "MEM_ATOMIC" \in last.args.flags
    /\ Len(last.af) >= 1 /\ Len(last.ff) = 1
    /\ last.ff[1][2] = last.af[Len(last.af)]

\* The tags of free_segs[LOG2_DOWN(size)] that hold size.
Holding(size) ==
    {bt \in {FreeList(LOG2_DOWN(size)).seq[k] : k \in 1..Len(FreeList(LOG2_DOWN(size)).seq)} :
        tags[bt].size >= size}

\* The first tag of the lowest list at or above i that is not empty, or NULL.
FirstFrom(i) ==
    IF \A j \in i..(ARENA_NR_FREE_LISTS - 1) : arena.free_segs[j] = NULL THEN NULL
    ELSE arena.free_segs[SetMin({j \in i..(ARENA_NR_FREE_LISTS - 1) :
                                    arena.free_segs[j] # NULL})]

\* The arena has one segment, of two quanta, all of it free.
OneFreeSegment ==
    /\ Len(arena.all_segs) = 1
    /\ tags[arena.all_segs[1]].status = "FREE"
    /\ tags[arena.all_segs[1]].size = 2 * arena.quantum
    /\ tags[arena.all_segs[1]].start # 0
    /\ arena.nr_allocs = 0

\* C27: on an arena without a source that has a tag to spare,
\* arena_alloc(sz, ARENA_BESTFIT) allocates a smallest tag of
\* free_segs[LOG2_DOWN(sz)] that holds sz when there is one, otherwise the
\* first tag of the lowest higher list that is not empty, and finds nothing
\* only when all_segs has no FREE tag that holds sz; with one free segment
\* of two quanta, the allocation of a quantum returns the segment's start
\* with amt_alloc_segs a quantum, and the free restores the segment.
C27_BestFit ==
    (Alive /\ ~arena.source /\ ~arena.is_base /\ __has_enough_btags(World, 1)) =>
       /\ \A size \in {k * arena.quantum : k \in 1..MaxSize} :
             \A r \in {arena_alloc(World, size, {"ARENA_BESTFIT", "MEM_ATOMIC"})} :
                IF Holding(size) # {}
                THEN /\ ~Stopped(r.w)
                     /\ \E bt \in Holding(size) :
                           /\ \A o \in Holding(size) : tags[bt].size <= tags[o].size
                           /\ r.ret = tags[bt].start
                           /\ r.w.t[bt].status = "ALLOC"
                ELSE IF FirstFrom(LOG2_DOWN(size) + 1) # NULL
                THEN /\ ~Stopped(r.w)
                     /\ r.ret = tags[FirstFrom(LOG2_DOWN(size) + 1)].start
                ELSE /\ ~Stopped(r.w) /\ r.ret = NULL
                     /\ \A bt \in FreeSegs : tags[bt].size < size
       /\ OneFreeSegment =>
             \A r \in {arena_alloc(World, arena.quantum, {"ARENA_BESTFIT"})} :
                /\ ~Stopped(r.w)
                /\ r.ret = tags[arena.all_segs[1]].start
                /\ r.w.a.amt_alloc_segs = arena.quantum
                /\ \A f \in {arena_free(r.w, r.ret, arena.quantum)} :
                      ~Stopped(f) /\ Snapshot(f) = Snapshot(World)

\* C28: on an arena without a source that has a tag to spare, arena_alloc(sz)
\* with ARENA_INSTANTFIT or no style takes the first tag of the lowest list
\* free_segs[i], i >= LOG2_UP(sz), that is not empty, and returns nothing
\* when these lists are empty; the tag holds sz, and the assertion
\* bt->size > size of __account_alloc does not fail.
C28_InstantFit ==
    (Alive /\ ~arena.source /\ ~arena.is_base /\ __has_enough_btags(World, 1)) =>
       \A size \in {k * arena.quantum : k \in 1..MaxSize},
          style \in {{}, {"ARENA_INSTANTFIT"}} :
          \A r \in {arena_alloc(World, size, style \cup {"MEM_ATOMIC"})} :
             /\ r.w.panic # "assert bt->size > size"
             /\ IF FirstFrom(LOG2_UP(size)) # NULL
                THEN /\ tags[FirstFrom(LOG2_UP(size))].size >= size
                     /\ ~Stopped(r.w) =>
                           /\ r.ret = tags[FirstFrom(LOG2_UP(size))].start
                           /\ r.w.t[FirstFrom(LOG2_UP(size))].status = "ALLOC"
                ELSE ~Stopped(r.w) /\ r.ret = NULL

\* arena_alloc reported out of memory: null under MEM_ATOMIC, the panic of
\* get_more_resources otherwise.
ReportsOOM(r, flags) ==
    IF "MEM_ATOMIC" \in flags THEN ~Stopped(r.w) /\ r.ret = NULL
    ELSE r.w.panic = "OOM!"

\* C29: on an arena without a source, arena_alloc(sz, flags) reports out of
\* memory, whatever the style, only when all_segs has no FREE tag of the
\* rounded size or more.
C29_OOMOnlyWhenNothingFits ==
    (Alive /\ ~arena.source) =>
       \A in \in (Sizes \ {0}) \X AllocFlags :
          \A r \in {arena_alloc(World, in[1], in[2])} :
             ReportsOOM(r, in[2]) =>
                \A bt \in FreeSegs : tags[bt].size < ROUNDUP(in[1], arena.quantum)

\* C30: the size get_more_resources asks of the source for a request of size
\* is the larger of size and the machine word size << import_scale: never
\* less than size, and size << import_scale whenever that fits a word and
\* is not less; afunc is called once with it, and an import that succeeds
\* leaves a span tag of that size at the address afunc returned and
\* amt_total_segs larger by that size.
C30_ImportSize ==
    (Alive /\ arena.source) =>
       \A in \in ImportInputs, pol \in {"low", "high"} :
          \A size \in {ROUNDUP(in[1], arena.quantum)},
             w \in {WorldOf([pol |-> pol, rb |-> FALSE, garbage |-> 0, junk |-> FALSE])} :
             /\ import_size(w, size) >= size
             /\ import_size(w, size) =
                   IF (size * (2 ^ arena.import_scale)) % WORD > size
                   THEN (size * (2 ^ arena.import_scale)) % WORD ELSE size
             /\ \A r \in {get_more_resources(w, size, in[2])} :
                   /\ r.w.af = <<import_size(w, size)>>
                   /\ r.ret =>
                         /\ \E i \in 1..Len(r.w.a.all_segs) :
                               /\ r.w.t[r.w.a.all_segs[i]].status = "SPAN"
                               /\ r.w.t[r.w.a.all_segs[i]].size = import_size(w, size)
                               /\ r.w.t[r.w.a.all_segs[i]].start =
                                     afunc(w, import_size(w, size), in[2]).ret
                         /\ r.w.a.amt_total_segs =
                               Wrap(arena.amt_total_segs + import_size(w, size))

\* An allocation imported with a shift that overflowed the word: the source
\* was asked for the size of the request, and the span has that size.
C30_Witness ==
    /\ Alive /\ last.op = "arena_alloc" /\ last.ret # NULL
    /\ last.args.size * (2 ^ arena.import_scale) >= WORD
    /\ last.af = <<last.args.size>> /\ last.ff = <<>>
    /\ arena.amt_total_segs = last.args.size
    /\ \E i \in 1..Len(arena.all_segs) :
          /\ tags[arena.all_segs[i]].status = "SPAN"
          /\ tags[arena.all_segs[i]].size = last.args.size

\* The locks thread t holds.
HeldBy(t) == {l \in DOMAIN lock : lock[l] = t}

\* C23: a thread holds at most one arena's lock and holds none while it
\* acquires one: not the arena's when it calls the base arena for tags, when
\* it calls the source's ffunc at the end of a free, or when it calls afunc
\* to import; so a lock a thread spins on is held by a thread that is not
\* spinning, and while a call is in progress some thread can take a step.
C23_NoNestedLocks ==
    panicked = "" =>
       /\ \A t \in Threads :
             /\ Cardinality(HeldBy(t)) <= 1
             /\ Wants(thread[t].pc) # "" => HeldBy(t) = {}
             /\ thread[t].pc \in {"base_body", "afunc_body", "ffunc_body"} =>
                   lock["arena"] # t
             /\ (Wants(thread[t].pc) # "" /\ lock[Wants(thread[t].pc)] # 0) =>
                   Wants(thread[lock[Wants(thread[t].pc)]].pc) = ""
       /\ (\E t \in Threads : thread[t].pc # "idle") =>
             \E t \in Threads :
                /\ thread[t].pc # "idle"
                /\ Wants(thread[t].pc) # "" => lock[Wants(thread[t].pc)] = 0

\* A thread has the base arena's lock for a page of tags while another has
\* the arena's lock.
C23_Witness ==
    /\ panicked = ""
    /\ \E t, u \in Threads :
          /\ t # u
          /\ thread[t].pc = "base_body" /\ lock["base"] = t
          /\ lock["arena"] = u

(***************************************************************************)
(* The slab cache: which slab serves an allocation.                        *)
(***************************************************************************)
\* The slabs whose busy count is one more in after than in before; a slab
\* that before does not have counts from zero.
Raised(before, after) ==
    {sl \in 1..Len(after) :
        after[sl].num_busy_obj = (IF sl <= Len(before) THEN before[sl].num_busy_obj ELSE 0) + 1}

\* The slabs of before that after holds with another busy count.
Recounted(before, after) ==
    {sl \in 1..Len(before) : after[sl].num_busy_obj # before[sl].num_busy_obj}

\* C31: kmem_cache_alloc returns an object of the first slab of the partial
\* list when there is one, otherwise of the first slab of the empty list, and
\* takes a new slab only when both lists are empty; kmem_cache_grow adds one
\* slab, with no busy object, at the head of the empty list; and an
\* allocation that returns an object raises the busy count of the slab of the
\* object by one and of no other slab.
C31_AllocServes ==
    (CacheExists /\ panicked = "") =>
       /\ \A intact \in Intacts, flags \in {{}, {"MEM_ERROR"}} :
             \A r \in {kmem_cache_alloc(SlabWorld(intact), flags)} :
                /\ (cache.partial_slab_list # <<>> \/ cache.empty_slab_list # <<>>) =>
                      Len(r.s.slabs) = Len(slabs)
                /\ Len(r.s.slabs) <= Len(slabs) + 1
                /\ (r.ret # NoObject /\ ~SlabStopped(r.s)) =>
                      /\ r.ret[1] = IF cache.partial_slab_list # <<>>
                                    THEN Head(cache.partial_slab_list)
                                    ELSE IF cache.empty_slab_list # <<>>
                                    THEN Head(cache.empty_slab_list)
                                    ELSE Len(slabs) + 1
                      /\ Raised(slabs, r.s.slabs) = {r.ret[1]}
                      /\ Recounted(slabs, r.s.slabs) \subseteq {r.ret[1]}
       /\ \A g \in {kmem_cache_grow(SlabWorld(TRUE))} :
             IF g.ret
             THEN /\ Len(g.s.slabs) = Len(slabs) + 1
                  /\ g.s.slabs[Len(slabs) + 1].num_busy_obj = 0
                  /\ g.s.c.empty_slab_list = <<Len(slabs) + 1>> \o cache.empty_slab_list
                  /\ g.s.c.partial_slab_list = cache.partial_slab_list
                  /\ g.s.c.full_slab_list = cache.full_slab_list
             ELSE g.s = SlabWorld(TRUE)

\* An allocation was served by a partial slab that a second grow had added.
C31_Witness ==
    /\ CacheExists /\ panicked = ""
    /\ slab_last.op = "kmem_cache_alloc" /\ slab_last.ret # NoObject
    /\ slab_last.ret[1] >= 2
    /\ slabs[slab_last.ret[1]].num_busy_obj >= 2

\* C32: in a cache with a constructor, every object of every slab had one
\* call of the constructor when kmem_cache_grow made the slab, in a slab of
\* small objects and in a slab of large ones, and so had every object that
\* kmem_cache_alloc returned.
C32_Constructed ==
    (CacheExists /\ panicked = "" /\ cache.ctor) =>
       /\ \A sl \in 1..Len(slabs) :
             \A i \in 0..(slabs[sl].num_total_obj - 1) : slabs[sl].ctor_calls[i] = 1
       /\ \A buf \in held : slabs[buf[1]].ctor_calls[buf[2]] = 1

\* The slabs on the three lists of the cache.
Listed == {sl \in 1..Len(slabs) : \/ InSeq(cache.empty_slab_list, sl)
                                  \/ InSeq(cache.partial_slab_list, sl)
                                  \/ InSeq(cache.full_slab_list, sl)}

\* C33: every slab on one of the three lists of the cache is live, and
\* kmem_cache_alloc returns no object that a caller still holds and no
\* object of a slab that was destroyed.
C33_NoReuse ==
    (CacheExists /\ panicked = "") =>
       /\ \A sl \in Listed : slabs[sl].live
       /\ \A intact \in Intacts, flags \in {{}, {"MEM_ERROR"}} :
             \A r \in {kmem_cache_alloc(SlabWorld(intact), flags)} :
                (r.ret # NoObject /\ ~SlabStopped(r.s)) =>
                   /\ r.ret \notin held
                   /\ r.s.slabs[r.ret[1]].live

\* The busy objects of the first n slabs.
RECURSIVE BusyObjects(_)
BusyObjects(n) == IF n = 0 THEN 0 ELSE slabs[n].num_busy_obj + BusyObjects(n - 1)

\* The objects that kmem_cache_alloc returned to a thread and that no
\* kmem_cache_free has taken back.
HandedOut == UNION {{m[2] : m \in {x \in thread[t].mine : x[1] = "obj"}} : t \in Threads}

\* C34: whenever no thread has cache_lock, whatever the threads' calls of
\* kmem_cache_alloc and kmem_cache_free have done so far, nr_cur_alloc is the
\* sum of num_busy_obj over the slabs and the number of objects handed out
\* and not yet freed, and no slab has more busy objects than objects or
\* fewer than none.
C34_AllocCount ==
    (panicked = "" /\ lock["cache"] = 0) =>
       /\ cache.nr_cur_alloc = BusyObjects(Len(slabs))
       /\ cache.nr_cur_alloc = Cardinality(HandedOut)
       /\ \A sl \in 1..Len(slabs) :
             /\ 0 <= slabs[sl].num_busy_obj
             /\ slabs[sl].num_busy_obj <= slabs[sl].num_total_obj

\* The lock is free while one thread is about to free an object and another
\* is about to allocate, with two objects out.
C34_Witness ==
    /\ panicked = "" /\ lock["cache"] = 0
    /\ cache.nr_cur_alloc >= 2
    /\ \E t, u \in Threads :
          thread[t].pc = "kfree_lock" /\ thread[u].pc = "kalloc_lock"

\* The caches that a kmem_cache_create returned and that no
\* kmem_cache_destroy was called on.
Created == UNION {{m[2] : m \in {x \in thread[t].mine : x[1] = "cache"}} : t \in Threads}

\* The caches whose kmem_cache_create or kmem_cache_destroy is under way.
Underway == {thread[t].op : t \in {u \in Threads : thread[u].pc # "idle"}}

\* The places of the cache named name on kmem_caches.
PlacesOf(name) == {i \in 1..Len(kmem_caches) : kmem_caches[i].name = name}

TagPages == Len(tags) \div nr_bts

\* C36: while the kernel runs, arena_destroy of an arena that is not the
\* base arena and has no allocation, once past its assertions, frees to the
\* base arena the pages that the arena took from it for its tags, each once,
\* and nothing else: it does not stop in the arena_free of an address that
\* the base arena never handed out, and the base arena has its pages back.
C36_DestroyFreesTagPages ==
    (Alive /\ ~arena.is_base /\ arena.nr_allocs = 0 /\ AllocSegs = {}) =>
       \A junk \in BOOLEAN :
          \A d \in {arena_destroy(WorldOf([pol |-> "low", rb |-> FALSE, garbage |-> 0,
                                           junk |-> junk]))} :
             d.panic \notin {"assert BSD_LIST_EMPTY(&arena->alloc_hash[i])",
                             "assert BSD_LIST_EMPTY(&arena->free_segs[i])"} =>
                /\ d.panic = ""
                /\ d.pages = base_pages + TagPages

\* C37: a result of __find_sufficient that is not 0 lies in the tag: it is
\* not below bt_start, and it and size end at or before the end of the tag,
\* where neither try + size nor bt_start + bt_size goes beyond the largest
\* machine word.
C37_WithinTag ==
    (last.op = "__find_sufficient" /\ last.ret # 0) =>
       /\ last.args.bt_start <= last.ret
       /\ last.ret + last.args.size <= last.args.bt_start + last.args.bt_size
       /\ last.ret + last.args.size < WORD
       /\ last.args.bt_start + last.args.bt_size < WORD

\* A result from the second try, after the nocross boundary in the tag, with
\* the tag in the upper half of the words.
C37_Witness ==
    /\ last.op = "__find_sufficient"
    /\ last.ret # 0
    /\ last.args.nocross # 0
    /\ last.ret > last.args.bt_start
    /\ last.ret >= ROUNDUP(last.args.bt_start, last.args.nocross)
    /\ last.args.bt_start < ROUNDUP(last.args.bt_start, last.args.nocross)
    /\ last.args.bt_start >= WORD \div 2

\* The threads of the elements of queue, in order.
PthreadsOf(queue) == [k \in 1..Len(queue) |-> queue[k].pthread]

\* The elements of queue whose uaddr is uaddr, in order.
WaitersOn(queue, uaddr) == SelectSeq(queue, LAMBDA e : e.uaddr = uaddr)

\* The places of thread t on the queue of __futex.
QueuedAt(t) == {k \in 1..Len(futex.queue) : futex.queue[k].pthread = t}

\* C38: a thread that found *uaddr == val in futex_wait has the lock of
\* __futex until it is on the queue, so that a futex_wake in its critical
\* section finds every thread that passed the test on the queue: the blocked
\* threads are the threads of the queue, once each and with their uaddr;
\* and the last futex_wake(uaddr, n) made runnable the first n threads that
\* waited on uaddr, or all when they are fewer, in the order of the queue,
\* each once, and left the other elements on the queue.
C38_WakeProtocol ==
    panicked = "" =>
       /\ \A t \in DOMAIN thread :
             /\ thread[t].pc \in {"wait_body", "futex_block", "wake_body"} =>
                   lock["futex"] = t
             /\ thread[t].pc = "blocked" <=> QueuedAt(t) # {}
             /\ Cardinality(QueuedAt(t)) <= 1
             /\ \A k \in QueuedAt(t) : futex.queue[k].uaddr = thread[t].addr
             /\ thread[t].pc = "wake_body" =>
                   \A u \in DOMAIN thread :
                      thread[u].pc \in {"futex_block", "blocked"} => QueuedAt(u) # {}
       /\ \A w \in {futex.wake} :
             \A waiters \in {PthreadsOf(WaitersOn(w.before, w.uaddr))} :
                /\ Len(w.woken) = MIN(w.count, Len(waiters))
                /\ w.woken = SubSeq(waiters, 1, Len(w.woken))
                /\ \A i, j \in 1..Len(w.woken) : i # j => w.woken[i] # w.woken[j]

\* The last futex_wake found two threads waiting on its uaddr and made the
\* first one runnable; the other one is still blocked and on the queue.
C38_Witness ==
    /\ panicked = ""
    /\ Len(WaitersOn(futex.wake.before, futex.wake.uaddr)) = 2
    /\ futex.wake.count = 1
    /\ futex.wake.woken = <<futex.wake.before[1].pthread>>
    /\ Len(futex.queue) = 1
    /\ thread[futex.queue[1].pthread].pc = "blocked"
    /\ thread[futex.wake.woken[1]].pc = "idle"

\* C39: whatever the threads' first calls of futex have done so far, a
\* thread that has locked __futex.lock did so after mcs_pdr_init, no thread
\* has used __futex.queue before TAILQ_INIT nor asked __futex.element_cache
\* for an element before kmem_cache_create, and the body of futex_init has
\* run at most once.
C39_InitOnce ==
    /\ \A t \in DOMAIN thread :
          thread[t].pc \in {"wait_body", "futex_block", "wake_body"} => futex.lock_ready
    /\ ~futex.early
    /\ futex.bodies <= 1
====
